---- MODULE Spec2Model ----
(***************************************************************************)
(* Rule lint engine of scripts/lint.py: the logic lints that lint_rule     *)
(* runs over one rule (statement tree, raw YAML feature list, scopes and   *)
(* dependencies inside a rule collection).                                 *)
(***************************************************************************)
EXTENDS Integers, Sequences, FiniteSets, TLC

VARIABLES rule, ctx, pending, violations, recommendation, run

vars == <<rule, ctx, pending, violations, recommendation, run>>

(* ------------------------------ bounds --------------------------------- *)

\* largest number of nodes of a statement tree
MaxNodes == 4
\* largest count of a Some statement ("N or more")
MaxCount == 1
\* largest number of items (nested ones included) of a raw feature list
MaxItems == 3

(* ------------------------- statement trees ----------------------------- *)

\* a node of rule.statement: And/Or/Some keep 'children', Not/Subscope keep
\* one 'child' (a one-element children list here), a Feature is a leaf
Node(kind, count, children) ==
    [kind |-> kind, count |-> count, children |-> children]

Leaf == Node("Feature", 0, <<>>)

\* isinstance(x, capa.engine.Statement): every node but a leaf feature
IsStatement(node) == node.kind # "Feature"

\* Statement.get_children(): the child, or the children in order
get_children(node) == node.children

RECURSIVE TreesOfSize(_)
RECURSIVE ForestsOfSize(_)
\* the statement trees with exactly n nodes
TreesOfSize(n) ==
    IF n = 1 THEN {Leaf}
    ELSE {Node(k, 0, <<t>>) : k \in {"Not", "Subscope"}, t \in TreesOfSize(n - 1)}
         \cup {Node(k, 0, f) : k \in {"And", "Or"}, f \in ForestsOfSize(n - 1)}
         \cup {Node("Some", c, f) : c \in 0..MaxCount, f \in ForestsOfSize(n - 1)}

\* the non-empty child lists with exactly n nodes in all
ForestsOfSize(n) ==
    {<<t>> : t \in TreesOfSize(n)}
    \cup UNION {{<<t>> \o f : t \in TreesOfSize(k), f \in ForestsOfSize(n - k)} :
                k \in 1..(n - 1)}

\* the default statement of a rule whose other parts vary: and(feature, feature)
DefaultStatement == Node("And", 0, <<Leaf, Leaf>>)

(* --------------------- lint results (Lint instances) ------------------- *)

\* what one check_rule call leaves behind: the value it returns and the
\* instance's recommendation; <<>> stands for the class's own text and <<x>>
\* for the lint's template formatted with x
Result(violation, rec) == [violation |-> violation, recommendation |-> rec]

(* ---------------- StatementWithSingleChildStatement -------------------- *)

\* not is_root and len(children) == 1 and isinstance(children[0], Statement)
SingleChild_is_superfluous(children, is_root) ==
    ~is_root /\ Len(children) = 1 /\ IsStatement(children[1])

RECURSIVE SingleChild_rec(_, _, _)
RECURSIVE SingleChild_each(_, _, _)
SingleChild_rec(statement, is_root, st) ==
    IF statement.kind \in {"And", "Or"}
    THEN LET children == get_children(statement)
             st1 == IF SingleChild_is_superfluous(children, is_root)
                    THEN Result(TRUE, <<statement>>)
                    ELSE st
         IN  SingleChild_each(children, 1, st1)
    ELSE st

\* for child in children: rec(child)
SingleChild_each(children, i, st) ==
    IF i > Len(children) THEN st
    ELSE SingleChild_each(children, i + 1, SingleChild_rec(children[i], FALSE, st))

StatementWithSingleChildStatement_check_rule(r, old) ==
    SingleChild_rec(r.statement, TRUE, Result(FALSE, old))

(* ------------------- OrStatementWithAlwaysTrueChild -------------------- *)

\* isinstance(child, capa.engine.Some) and child.count == 0
AlwaysTrue_child(child) == child.kind = "Some" /\ child.count = 0

RECURSIVE AlwaysTrue_rec(_, _)
RECURSIVE AlwaysTrue_each(_, _, _)
AlwaysTrue_rec(statement, st) ==
    IF statement.kind = "Or"
    THEN AlwaysTrue_each(get_children(statement), 1, st)
    ELSE st

\* for child in children: flag the child, then rec(child)
AlwaysTrue_each(children, i, st) ==
    IF i > Len(children) THEN st
    ELSE LET child == children[i]
             st1 == IF AlwaysTrue_child(child)
                    THEN Result(TRUE, <<child>>)
                    ELSE st
         IN  AlwaysTrue_each(children, i + 1, AlwaysTrue_rec(child, st1))

OrStatementWithAlwaysTrueChild_check_rule(r, old) ==
    AlwaysTrue_rec(r.statement, Result(FALSE, old))

(* --------------------------- NotNotUnderAnd ---------------------------- *)

\* a faulty variant: children of an And are looked at as well
NotNotUnderAnd_looks_any(statement) == TRUE

\* not isinstance(statement, capa.engine.And)
NotNotUnderAnd_looks(statement) == statement.kind # "And"

RECURSIVE NotNotUnderAnd_rec(_, _)
RECURSIVE NotNotUnderAnd_each(_, _, _)
NotNotUnderAnd_rec(statement, violation) ==
    IF IsStatement(statement)
    THEN LET children == get_children(statement)
             v1 == violation
                   \/ (NotNotUnderAnd_looks(statement)
                       /\ \E i \in 1..Len(children) : children[i].kind = "Not")
         IN  NotNotUnderAnd_each(children, 1, v1)
    ELSE violation

NotNotUnderAnd_each(children, i, violation) ==
    IF i > Len(children) THEN violation
    ELSE NotNotUnderAnd_each(children, i + 1,
                             NotNotUnderAnd_rec(children[i], violation))

NotNotUnderAnd_check_rule(r, old) ==
    Result(NotNotUnderAnd_rec(r.statement, FALSE), old)

(* ------------------------- OptionalNotUnderAnd ------------------------- *)

\* a faulty variant: a Some of any count is flagged
OptionalNotUnderAnd_child_any(child) == child.kind = "Some"

\* isinstance(child, capa.engine.Some) and child.count == 0
OptionalNotUnderAnd_child(child) == child.kind = "Some" /\ child.count = 0

RECURSIVE OptionalNotUnderAnd_rec(_, _)
RECURSIVE OptionalNotUnderAnd_each(_, _, _)
OptionalNotUnderAnd_rec(statement, violation) ==
    IF IsStatement(statement)
    THEN LET children == get_children(statement)
             v1 == violation
                   \/ (statement.kind # "And"
                       /\ \E i \in 1..Len(children) :
                             OptionalNotUnderAnd_child(children[i]))
         IN  OptionalNotUnderAnd_each(children, 1, v1)
    ELSE violation

OptionalNotUnderAnd_each(children, i, violation) ==
    IF i > Len(children) THEN violation
    ELSE OptionalNotUnderAnd_each(children, i + 1,
                                  OptionalNotUnderAnd_rec(children[i], violation))

OptionalNotUnderAnd_check_rule(r, old) ==
    Result(OptionalNotUnderAnd_rec(r.statement, FALSE), old)

(* ---------------------- raw feature list (YAML) ------------------------ *)

\* one key: value entry of a YAML mapping; the value is a scalar or a list
Pair(key, isList, scalar, list) ==
    [key |-> key, isList |-> isList, scalar |-> scalar, list |-> list]

\* one item of a YAML list: a mapping (its pairs in order) or a bare scalar,
\* with the 1-based source line ruamel records for it
Item(isDict, pairs, line) == [isDict |-> isDict, pairs |-> pairs, line |-> line]

\* the characters of the strings the key test reads, and of the values and
\* patterns of the features as the rule and the source write them
Chars(s) ==
    CASE s = "or" -> <<"o", "r">>
      [] s = "and" -> <<"a", "n", "d">>
      [] s = "not" -> <<"n", "o", "t">>
      [] s = "optional" -> <<"o", "p", "t", "i", "o", "n", "a", "l">>
      [] s = "some" -> <<"s", "o", "m", "e">>
      [] s = "basic block" -> <<"b", "a", "s", "i", "c", " ", "b", "l", "o", "c", "k">>
      [] s = "function" -> <<"f", "u", "n", "c", "t", "i", "o", "n">>
      [] s = "instruction" -> <<"i", "n", "s", "t", "r", "u", "c", "t", "i", "o", "n">>
      [] s = "call" -> <<"c", "a", "l", "l">>
      [] s = " or more" -> <<" ", "o", "r", " ", "m", "o", "r", "e">>
      [] s = "string" -> <<"s", "t", "r", "i", "n", "g">>
      [] s = "import" -> <<"i", "m", "p", "o", "r", "t">>
      [] s = "description" -> <<"d", "e", "s", "c", "r", "i", "p", "t", "i", "o", "n">>
      [] s = "thread" -> <<"t", "h", "r", "e", "a", "d">>
      [] s = "2 or more" -> <<"2", " ", "o", "r", " ", "m", "o", "r", "e">>
      [] s = "ab" ->
            <<"a", "b">>
      [] s = "abcd" ->
            <<"a", "b", "c", "d">>
      [] s = "xy" ->
            <<"x", "y">>
      [] s = "/" ->
            <<"/">>
      [] s = "/i" ->
            <<"/", "i">>
      [] s = "/ab/" ->
            <<"/", "a", "b", "/">>
      [] s = "/a.b/" ->
            <<"/", "a", ".", "b", "/">>
      [] s = "/a\\.b/" ->
            <<"/", "a", "\\", ".", "b", "/">>
      [] s = "/a.*/" ->
            <<"/", "a", ".", "*", "/">>
      [] s = "/.b/" ->
            <<"/", ".", "b", "/">>
      [] s = "/\\\\.b/" ->
            <<"/", "\\", "\\", ".", "b", "/">>
      [] s = "/a\\\\.b/" ->
            <<"/", "a", "\\", "\\", ".", "b", "/">>
      [] s = "/a\\.b.c/" ->
            <<"/", "a", "\\", ".", "b", ".", "c", "/">>
      [] s = "system\\\\" ->
            <<"s", "y", "s", "t", "e", "m", "\\", "\\">>
      [] s = "controlset" ->
            <<"c", "o", "n", "t", "r", "o", "l", "s", "e", "t">>
      [] s = "currentcontrolset" ->
            <<"c", "u", "r", "r", "e", "n", "t", "c", "o", "n", "t", "r", "o", "l", "s", "e", "t">>
      [] s = "system\\\\(controlset\\d{3}|currentcontrolset)" ->
            <<"s", "y", "s", "t", "e", "m", "\\", "\\", "(", "c", "o", "n", "t", "r", "o", "l", "s", "e", "t", "\\", "d", "{", "3", "}", "|", "c", "u", "r", "r", "e", "n", "t", "c", "o", "n", "t", "r", "o", "l", "s", "e", "t", ")">>
      [] s = "/SYSTEM\\\\CurrentControlSet\\\\a/i" ->
            <<"/", "S", "Y", "S", "T", "E", "M", "\\", "\\", "C", "u", "r", "r", "e", "n", "t", "C", "o", "n", "t", "r", "o", "l", "S", "e", "t", "\\", "\\", "a", "/", "i">>
      [] s = "/system\\\\(controlset\\d{3}|currentcontrolset)\\\\a/" ->
            <<"/", "s", "y", "s", "t", "e", "m", "\\", "\\", "(", "c", "o", "n", "t", "r", "o", "l", "s", "e", "t", "\\", "d", "{", "3", "}", "|", "c", "u", "r", "r", "e", "n", "t", "c", "o", "n", "t", "r", "o", "l", "s", "e", "t", ")", "\\", "\\", "a", "/">>
      [] s = "/system\\\\controlset001\\\\a/" ->
            <<"/", "s", "y", "s", "t", "e", "m", "\\", "\\", "c", "o", "n", "t", "r", "o", "l", "s", "e", "t", "0", "0", "1", "\\", "\\", "a", "/">>

\* Python's 'needle in hay' on strings
Contains(hay, needle) ==
    \E i \in 0..(Len(hay) - Len(needle)) :
        SubSeq(hay, i + 1, i + Len(needle)) = needle

STATEMENTS ==
    {"or", "and", "not", "optional", "some", "basic block", "function",
     "instruction", "call", " or more"}

\* any(statement in key for statement in STATEMENTS)
is_statement(key) ==
    \E statement \in STATEMENTS : Contains(Chars(key), Chars(statement))

RECURSIVE ReprList(_, _)
RECURSIVE ReprPairs(_, _)
\* f"{value}" of a value: a string as it is, a list by its items
Format(pair) ==
    IF pair.isList THEN "[" \o ReprList(pair.list, 1) \o "]" ELSE pair.scalar

ReprPairs(pairs, i) ==
    IF i > Len(pairs) THEN ""
    ELSE (IF i > 1 THEN ", " ELSE "")
         \o "'" \o pairs[i].key \o "': '" \o Format(pairs[i]) \o "'"
         \o ReprPairs(pairs, i + 1)

ReprList(items, i) ==
    IF i > Len(items) THEN ""
    ELSE (IF i > 1 THEN ", " ELSE "")
         \o (IF items[i].isDict THEN "{" \o ReprPairs(items[i].pairs, 1) \o "}"
             ELSE "'scalar'")
         \o ReprList(items, i + 1)

RECURSIVE JoinParts(_, _)
\* ", ".join(f"{key}: {value}" for key, value in feature_dict.items())
JoinParts(pairs, i) ==
    IF i > Len(pairs) THEN ""
    ELSE (IF i > 1 THEN ", " ELSE "")
         \o pairs[i].key \o ": " \o Format(pairs[i])
         \o JoinParts(pairs, i + 1)

\* a faulty variant: the key is the first entry (kind and value) alone
get_feature_key_first(feature_dict) ==
    "- " \o JoinParts(SubSeq(feature_dict.pairs, 1, 1), 1)

get_feature_key(feature_dict) == "- " \o JoinParts(feature_dict.pairs, 1)

RECURSIVE Insert(_, _)
\* x put into the ascending sequence s
Insert(s, x) ==
    IF s = <<>> THEN <<x>>
    ELSE IF x <= Head(s) THEN <<x>> \o s
    ELSE <<Head(s)>> \o Insert(Tail(s), x)

RECURSIVE sorted(_)
sorted(s) == IF s = <<>> THEN <<>> ELSE Insert(sorted(Tail(s)), Head(s))

(* -------------------- DuplicateFeatureUnderStatement ------------------- *)

RECURSIVE find_duplicates(_, _, _)
RECURSIVE find_duplicates_items(_, _, _, _)
RECURSIVE find_duplicates_nested(_, _, _)
RECURSIVE find_duplicates_report(_, _, _)

\* if not isinstance(features, list): return
find_duplicates(isList, features, st) ==
    IF ~isList THEN st
    ELSE find_duplicates_items(features, 1, <<>>, st)

\* for item in features: ...; then the report of this list's seen_features
find_duplicates_items(features, i, seen, st) ==
    LET \* index of feature_key in seen_features (a dict in insertion order), or 0
        SeenIndex(seen_features, key) ==
            IF \E k \in 1..Len(seen_features) : seen_features[k].key = key
            THEN CHOOSE k \in 1..Len(seen_features) : seen_features[k].key = key
            ELSE 0
    IN  LET get_line_number(line) == line.line
        IN  IF i > Len(features) THEN find_duplicates_report(seen, 1, st)
            ELSE LET item == features[i] IN
                 IF ~item.isDict
                 THEN find_duplicates_items(features, i + 1, seen, st)
                 ELSE IF \E j \in 1..Len(item.pairs) : is_statement(item.pairs[j].key)
                 THEN find_duplicates_items(features, i + 1, seen,
                                            find_duplicates_nested(item.pairs, 1, st))
                 ELSE LET feature_key == get_feature_key(item)
                          line_num == get_line_number(item)
                          k == SeenIndex(seen, feature_key)
                      IN  IF k # 0
                          THEN find_duplicates_items(
                                   features, i + 1,
                                   [seen EXCEPT ![k].lines = Append(@, line_num)],
                                   [st EXCEPT !.violation = TRUE])
                          ELSE find_duplicates_items(
                                   features, i + 1,
                                   Append(seen, [key |-> feature_key, lines |-> <<line_num>>]),
                                   st)

\* for key, value in item.items(): if is_statement(key): find_duplicates(value)
find_duplicates_nested(pairs, j, st) ==
    IF j > Len(pairs) THEN st
    ELSE find_duplicates_nested(
             pairs, j + 1,
             IF is_statement(pairs[j].key)
             THEN find_duplicates(pairs[j].isList, pairs[j].list, st)
             ELSE st)

\* for feature_key, line_numbers in seen_features.items(): one entry of the
\* recommendation (the key, the sorted line numbers) per key seen twice
find_duplicates_report(seen, k, st) ==
    IF k > Len(seen) THEN st
    ELSE find_duplicates_report(
             seen, k + 1,
             IF Len(seen[k].lines) > 1
             THEN [st EXCEPT !.recommendation =
                      Append(@, [key |-> seen[k].key, lines |-> sorted(seen[k].lines)])]
             ELSE st)

\* self.violation = False; self.recommendation = ""; find_duplicates(features)
DuplicateFeatureUnderStatement_check_rule(r, old) ==
    find_duplicates(TRUE, r.features, Result(FALSE, <<>>))

(* the raw feature lists the model draws from *)

StringItem(value) == Item(TRUE, <<Pair("string", FALSE, value, <<>>)>>, 0)

\* keys whose value is a nested list: a combinator, a count, a subscope
NestingKeys == {"and", "2 or more", "thread"}

RECURSIVE ItemsOfSize(_)
RECURSIVE ListsOfSize(_)
ItemsOfSize(n) ==
    LET LeafItems ==
            {StringItem("a"), StringItem("b"),
             Item(TRUE, <<Pair("string", FALSE, "a", <<>>),
                          Pair("description", FALSE, "d", <<>>)>>, 0),
             Item(TRUE, <<Pair("import", FALSE, "a", <<>>)>>, 0),
             Item(FALSE, <<>>, 0)}
    IN  IF n = 1 THEN LeafItems
        ELSE {Item(TRUE, <<Pair(k, TRUE, "", l)>>, 0) :
                k \in NestingKeys, l \in ListsOfSize(n - 1)}

ListsOfSize(n) ==
    {<<t>> : t \in ItemsOfSize(n)}
    \cup UNION {{<<t>> \o l : t \in ItemsOfSize(k), l \in ListsOfSize(n - k)} :
                k \in 1..(n - 1)}

RECURSIVE ItemLines(_)
RECURSIVE ListLines(_, _)
\* the source lines an item takes: one per scalar entry, one for a nesting
\* key and then its list's
ItemLines(item) ==
    IF ~item.isDict THEN 1
    ELSE IF item.pairs[1].isList THEN 1 + ListLines(item.pairs[1].list, 1)
    ELSE Len(item.pairs)

ListLines(items, i) ==
    IF i > Len(items) THEN 0 ELSE ItemLines(items[i]) + ListLines(items, i + 1)

RECURSIVE NumberList(_, _, _)
\* the list as the parser loads it: every item with its line, in document order
NumberItem(item, line) ==
    IF item.isDict /\ item.pairs[1].isList
    THEN Item(TRUE,
              <<Pair(item.pairs[1].key, TRUE, "",
                     NumberList(item.pairs[1].list, 1, line + 1))>>,
              line)
    ELSE [item EXCEPT !.line = line]

NumberList(items, i, line) ==
    IF i > Len(items) THEN <<>>
    ELSE <<NumberItem(items[i], line)>>
         \o NumberList(items, i + 1, line + ItemLines(items[i]))

DefaultFeatures == NumberList(<<StringItem("a"), StringItem("b")>>, 1, 5)

(* ------------------- rule collection, scopes, dependencies ------------- *)

\* Python's None: a scope the rule does not declare ("unsupported")
None == "none"

STATIC_SCOPE_ORDER == <<"file", "function", "basic block", "instruction">>
DYNAMIC_SCOPE_ORDER == <<"file", "process", "thread", "span of calls", "call">>

IndexOf(order, scope) == CHOOSE i \in 1..Len(order) : order[i] = scope

\* capa.rules.is_subscope_compatible, as _is_static_scope_compatible documents
\* it: the child's scope is equal to or lower than the parent's
is_subscope_compatible(order, scope, subscope) ==
    IndexOf(order, subscope) >= IndexOf(order, scope)

\* a rule of the collection: its declared scopes, whether it is a subscope
\* rule, the values of its match features and its namespace ("" for none)
RuleEntry(static, dynamic, subscope, refs, namespace) ==
    [static |-> static, dynamic |-> dynamic, subscope |-> subscope,
     refs |-> refs, namespace |-> namespace]

\* ctx.rules.rules_by_namespace: the rule names declared under a namespace
rules_by_namespace(rules) ==
    [n \in {rules[r].namespace : r \in DOMAIN rules} \ {""} |->
        {r \in DOMAIN rules : rules[r].namespace = n}]

\* the names one match value stands for: a namespace's rules, else the name
Expand(rules, value) ==
    LET namespaces == rules_by_namespace(rules)
    IN  IF value \in DOMAIN namespaces THEN namespaces[value] ELSE {value}

DirectReferences(rules, name) ==
    IF name \in DOMAIN rules
    THEN UNION {Expand(rules, v) : v \in rules[name].refs}
    ELSE {}

\* a faulty variant: names already collected are expanded again
Unvisited_all(names, visited) == names

\* the names that are not collected yet
Unvisited(names, visited) == names \ visited

RECURSIVE Resolve(_, _, _, _)
\* reachability with a visited set: names still to expand, names collected,
\* expansions made
Resolve(rules, todo, visited, steps) ==
    LET \* more expansions than there are names: the resolution is cut off as not
        \* finishing
        StepLimit(all) ==
            Cardinality(DOMAIN all \cup UNION {all[x].refs : x \in DOMAIN all}) + 1
    IN  IF todo = {} THEN [names |-> visited, steps |-> steps, finished |-> TRUE]
        ELSE IF steps >= StepLimit(rules)
        THEN [names |-> visited, steps |-> steps, finished |-> FALSE]
        ELSE LET name == CHOOSE n \in todo : TRUE
             IN  Resolve(rules,
                         Unvisited(todo \cup DirectReferences(rules, name),
                                   visited \cup {name}),
                         visited \cup {name}, steps + 1)

\* rule.get_dependencies(namespaces): every rule name the rule references,
\* directly or through other rules and namespaces
get_dependencies(rules, name) ==
    Resolve(rules, DirectReferences(rules, name), {}, 0).names

(* --------------------- RuleDependencyScopeMismatch --------------------- *)

\* a faulty variant: a child that declares no static scope is not let through
is_static_scope_compatible_strict(parent, child) ==
    /\ child.static # None
    /\ is_subscope_compatible(STATIC_SCOPE_ORDER, parent.static, child.static)

\* a faulty variant: the two scopes are handed over the wrong way round
is_static_scope_compatible_swapped(parent, child) ==
    IF parent.static # None /\ child.static = None THEN TRUE
    ELSE is_subscope_compatible(STATIC_SCOPE_ORDER, child.static, parent.static)

_is_static_scope_compatible(parent, child) ==
    IF parent.static # None /\ child.static = None /\ child.subscope THEN TRUE
    ELSE IF parent.static # None /\ child.static = None THEN TRUE
    ELSE is_subscope_compatible(STATIC_SCOPE_ORDER, parent.static, child.static)

_is_dynamic_scope_compatible(parent, child) ==
    IF parent.dynamic # None /\ child.dynamic = None /\ child.subscope THEN TRUE
    ELSE IF parent.dynamic # None /\ child.dynamic = None THEN TRUE
    ELSE is_subscope_compatible(DYNAMIC_SCOPE_ORDER, parent.dynamic, child.dynamic)

\* recommendation_template.format(rule.name, scope, dep_name, dep scope)
MismatchText(kind, name, scope, dep_name, dep_scope) ==
    [kind |-> kind, rule |-> name, scope |-> scope, dep |-> dep_name,
     dep_scope |-> IF dep_scope = None THEN kind \o ": unsupported" ELSE dep_scope]

\* a faulty variant: the dynamic scopes are not compared
ScopeMismatch_checks_dynamic_never(r) == FALSE

\* rule.scopes.dynamic (truthy): the dynamic scopes are compared
ScopeMismatch_checks_dynamic(r) == r.dynamic # None

RECURSIVE ScopeMismatch_each(_, _, _, _, _)
\* for dep_name in dependencies: ..., in the order the set yields them
ScopeMismatch_each(rules, name, order, i, old) ==
    IF i > Len(order) THEN Result(FALSE, old)
    ELSE LET dep_name == order[i]
             r == rules[name]
         IN  IF dep_name \notin DOMAIN rules
             THEN ScopeMismatch_each(rules, name, order, i + 1, old)
             ELSE LET dep_rule == rules[dep_name] IN
                  IF r.static # None /\ ~_is_static_scope_compatible(r, dep_rule)
                  THEN Result(TRUE, <<MismatchText("static", name, r.static,
                                                   dep_name, dep_rule.static)>>)
                  ELSE IF ScopeMismatch_checks_dynamic(r)
                          /\ ~_is_dynamic_scope_compatible(r, dep_rule)
                  THEN Result(TRUE, <<MismatchText("dynamic", name, r.dynamic,
                                                   dep_name, dep_rule.dynamic)>>)
                  ELSE ScopeMismatch_each(rules, name, order, i + 1, old)

\* the orders in which a Python set of names may be iterated
Orders(S) ==
    {o \in [1..Cardinality(S) -> S] : \A i, j \in 1..Cardinality(S) : o[i] = o[j] => i = j}

\* the results check_rule may give: one per iteration order of the dependencies
RuleDependencyScopeMismatch_check_rule(c, r, old) ==
    {ScopeMismatch_each(c.rules, r.name, order, 1, old) :
        order \in Orders(get_dependencies(c.rules, r.name))}

(* the rule collections the model draws from: the linted rule A, rules B, C *)

\* a rule declares at least one scope
ScopePairs ==
    LET StaticScopes == {"file", "function", "basic block", "instruction"}
        DynamicScopes == {"process", "call"}
    IN  {p \in (StaticScopes \cup {None}) \X (DynamicScopes \cup {None}) :
            ~(p[1] = None /\ p[2] = None)}

RefsOf(refsA, refsB) == [A |-> refsA, B |-> refsB, C |-> {}]
NamespaceOf(nsB, nsC) == [A |-> "", B |-> nsB, C |-> nsC]

DefaultRules == [A |-> RuleEntry("function", None, FALSE, {}, "")]

(* ------------------------------ lint_rule ------------------------------ *)

\* the lints of LOGIC_LINTS modelled here, in the order run_lints runs them
LOGIC_LINTS ==
    <<"StatementWithSingleChildStatement", "OrStatementWithAlwaysTrueChild",
      "NotNotUnderAnd", "OptionalNotUnderAnd",
      "DuplicateFeatureUnderStatement", "RuleDependencyScopeMismatch">>

Init ==
    LET Trees == UNION {TreesOfSize(n) : n \in 1..MaxNodes}
        \* data["rule"].get("features", []) of the rules drawn: the first item
        \* is on line 5, after 'rule:', 'meta:', 'name:' and 'features:'
        FeatureLists ==
            {NumberList(l, 1, 5) : l \in UNION {ListsOfSize(n) : n \in 1..MaxItems}}
        \* who references whom: directly, through a rule, twice, through a
        \* namespace, a name that is no rule, and a cycle through a namespace
        Topologies ==
            {[refs |-> RefsOf({"B"}, {}), namespace |-> NamespaceOf("", "")],
             [refs |-> RefsOf({"B"}, {"C"}), namespace |-> NamespaceOf("", "")],
             [refs |-> RefsOf({"B", "C"}, {}), namespace |-> NamespaceOf("", "")],
             [refs |-> RefsOf({"N"}, {}), namespace |-> NamespaceOf("N", "N")],
             [refs |-> RefsOf({"missing", "B"}, {}), namespace |-> NamespaceOf("", "")],
             [refs |-> RefsOf({"N"}, {"A"}), namespace |-> NamespaceOf("N", "")]}
        Collections ==
            {[A |-> RuleEntry(a[1], a[2], FALSE, t.refs.A, t.namespace.A),
              B |-> RuleEntry(b[1], b[2], sub, t.refs.B, t.namespace.B),
              C |-> RuleEntry(cs, cd, FALSE, t.refs.C, t.namespace.C)] :
                a \in ScopePairs, b \in ScopePairs, sub \in BOOLEAN, t \in Topologies,
                cs \in {"file", "instruction"}, cd \in {None}}
        LintNames == {LOGIC_LINTS[i] : i \in 1..Len(LOGIC_LINTS)}
        \* where the run stands: inside lint_rule, with nothing of main and
        \* lint() to follow
        InLintRule == [status |-> "rule"]
    IN  /\ \/ /\ rule \in {[name |-> "A", statement |-> t, features |-> DefaultFeatures] :
                            t \in Trees}
              /\ ctx = [rules |-> DefaultRules]
           \/ /\ rule \in {[name |-> "A", statement |-> DefaultStatement, features |-> f] :
                            f \in FeatureLists}
              /\ ctx = [rules |-> DefaultRules]
           \/ /\ rule = [name |-> "A", statement |-> DefaultStatement,
                         features |-> DefaultFeatures]
              /\ ctx \in {[rules |-> c] : c \in Collections}
        /\ pending = LOGIC_LINTS
        /\ violations = <<>>
        /\ recommendation = [l \in LintNames |-> <<>>]
        /\ run = InLintRule

\* one step of run_lints: 'if lint.check_rule(ctx, rule): yield lint', the
\* lint's recommendation left on its instance
Ran(lint, res) ==
    /\ violations' = IF res.violation THEN Append(violations, lint) ELSE violations
    /\ recommendation' = [recommendation EXCEPT ![lint] = res.recommendation]
    /\ pending' = Tail(pending)
    /\ UNCHANGED <<rule, ctx, run>>

\* the lint the generators of lint_rule reach next
Next_is(lint) == run.status = "rule" /\ pending # <<>> /\ Head(pending) = lint

CheckStatementWithSingleChildStatement ==
    /\ Next_is("StatementWithSingleChildStatement")
    /\ Ran("StatementWithSingleChildStatement",
           StatementWithSingleChildStatement_check_rule(
               rule, recommendation["StatementWithSingleChildStatement"]))

CheckOrStatementWithAlwaysTrueChild ==
    /\ Next_is("OrStatementWithAlwaysTrueChild")
    /\ Ran("OrStatementWithAlwaysTrueChild",
           OrStatementWithAlwaysTrueChild_check_rule(
               rule, recommendation["OrStatementWithAlwaysTrueChild"]))

CheckNotNotUnderAnd ==
    /\ Next_is("NotNotUnderAnd")
    /\ Ran("NotNotUnderAnd",
           NotNotUnderAnd_check_rule(rule, recommendation["NotNotUnderAnd"]))

CheckOptionalNotUnderAnd ==
    /\ Next_is("OptionalNotUnderAnd")
    /\ Ran("OptionalNotUnderAnd",
           OptionalNotUnderAnd_check_rule(rule, recommendation["OptionalNotUnderAnd"]))

CheckDuplicateFeatureUnderStatement ==
    /\ Next_is("DuplicateFeatureUnderStatement")
    /\ Ran("DuplicateFeatureUnderStatement",
           DuplicateFeatureUnderStatement_check_rule(
               rule, recommendation["DuplicateFeatureUnderStatement"]))

CheckRuleDependencyScopeMismatch ==
    /\ Next_is("RuleDependencyScopeMismatch")
    /\ \E res \in RuleDependencyScopeMismatch_check_rule(
                      ctx, rule, recommendation["RuleDependencyScopeMismatch"]) :
           Ran("RuleDependencyScopeMismatch", res)

Next ==
    \/ CheckStatementWithSingleChildStatement
    \/ CheckOrStatementWithAlwaysTrueChild
    \/ CheckNotNotUnderAnd
    \/ CheckOptionalNotUnderAnd
    \/ CheckDuplicateFeatureUnderStatement
    \/ CheckRuleDependencyScopeMismatch

Spec == Init /\ [][Next]_vars

\* whether a lint has run on the rule, and whether it reported a violation
HasRun(lint) == \A i \in 1..Len(pending) : pending[i] # lint
Violation(lint) == \E i \in 1..Len(violations) : violations[i] = lint

(* ======================================================================= *)
(* Properties of the statement-tree lints                                  *)
(* ======================================================================= *)

RECURSIVE Paths(_)
\* the positions of a tree: the child indices from the root down to a node
Paths(t) ==
    {<<>>} \cup UNION {{<<i>> \o p : p \in Paths(t.children[i])} :
                       i \in 1..Len(t.children)}

RECURSIVE NodeAt(_, _)
NodeAt(t, p) == IF p = <<>> THEN t ELSE NodeAt(t.children[Head(p)], Tail(p))

Front(p) == SubSeq(p, 1, Len(p) - 1)

\* the parent of the node at a position below the root
ParentAt(t, p) == NodeAt(t, Front(p))

NonRootPaths(t) == Paths(t) \ {<<>>}

\* some Or of the tree, at any depth, has a direct child Some(count = 0)
OrWithOptionalChild(t) ==
    \E p \in NonRootPaths(t) :
        /\ ParentAt(t, p).kind = "Or"
        /\ NodeAt(t, p).kind = "Some" /\ NodeAt(t, p).count = 0

\* C1: OrStatementWithAlwaysTrueChild reports a violation exactly when some
\* Or of the tree, at the root or nested under any ancestors, has a direct
\* child Some with count = 0.
C1_OrAnywhereIsFlagged ==
    HasRun("OrStatementWithAlwaysTrueChild") =>
        (Violation("OrStatementWithAlwaysTrueChild")
            <=> OrWithOptionalChild(rule.statement))

\* some And/Or below the root has exactly one child, itself a statement
SingleChildWrapper(t) ==
    \E p \in NonRootPaths(t) :
        /\ NodeAt(t, p).kind \in {"And", "Or"}
        /\ Len(NodeAt(t, p).children) = 1
        /\ NodeAt(t, p).children[1].kind # "Feature"

\* C2: StatementWithSingleChildStatement reports a violation exactly when
\* the tree holds, at any position below the root (beneath Not or Some too),
\* an And/Or whose only child is a combinator.
C2_SingleChildAnywhereIsFlagged ==
    HasRun("StatementWithSingleChildStatement") =>
        (Violation("StatementWithSingleChildStatement")
            <=> SingleChildWrapper(rule.statement))

\* some Not of the tree has a parent that is not an And
NotUnderNonAnd(t) ==
    \E p \in NonRootPaths(t) :
        NodeAt(t, p).kind = "Not" /\ ParentAt(t, p).kind # "And"

\* C3: NotNotUnderAnd reports a violation exactly when the tree holds, at
\* any depth, a Not whose parent is a combinator other than And.
C3_NotUnderNonAndIsFlagged ==
    HasRun("NotNotUnderAnd") =>
        (Violation("NotNotUnderAnd") <=> NotUnderNonAnd(rule.statement))

\* C3's case: a Not two levels down under a non-And parent, reported, in a
\* tree that also holds a Not directly under an And
C3_Witness ==
    /\ HasRun("NotNotUnderAnd") /\ Violation("NotNotUnderAnd")
    /\ \E p \in NonRootPaths(rule.statement) :
          /\ Len(p) >= 2
          /\ NodeAt(rule.statement, p).kind = "Not"
          /\ ParentAt(rule.statement, p).kind \in {"Or", "Some", "Subscope", "Not"}
    /\ \E p \in NonRootPaths(rule.statement) :
          /\ NodeAt(rule.statement, p).kind = "Not"
          /\ ParentAt(rule.statement, p).kind = "And"

\* some Some with count = 0 has a parent that is not an And
OptionalUnderNonAnd(t) ==
    \E p \in NonRootPaths(t) :
        /\ NodeAt(t, p).kind = "Some" /\ NodeAt(t, p).count = 0
        /\ ParentAt(t, p).kind # "And"

\* C4: OptionalNotUnderAnd reports a violation exactly when the tree holds,
\* at any depth, a Some with count = 0 whose parent is not an And.
C4_OptionalUnderNonAndIsFlagged ==
    HasRun("OptionalNotUnderAnd") =>
        (Violation("OptionalNotUnderAnd") <=> OptionalUnderNonAnd(rule.statement))

\* C4's case: an optional under a non-And parent below the root, reported
C4_Witness ==
    /\ HasRun("OptionalNotUnderAnd") /\ Violation("OptionalNotUnderAnd")
    /\ \E p \in NonRootPaths(rule.statement) :
          /\ Len(p) >= 2
          /\ NodeAt(rule.statement, p).kind = "Some"
          /\ NodeAt(rule.statement, p).count = 0
          /\ ParentAt(rule.statement, p).kind \in {"Or", "Some", "Subscope", "Not"}

\* some Some with a count of at least 1 has a parent that is not an And
CountedSomeUnderNonAnd(t) ==
    \E p \in NonRootPaths(t) :
        /\ NodeAt(t, p).kind = "Some" /\ NodeAt(t, p).count >= 1
        /\ ParentAt(t, p).kind # "And"

\* C5 as stated: a Some of any count whose parent is not an And is reported
\* by OptionalNotUnderAnd.
C5_AnySomeIsFlagged ==
    (HasRun("OptionalNotUnderAnd") /\ CountedSomeUnderNonAnd(rule.statement))
        => Violation("OptionalNotUnderAnd")

\* C5 (amended): only a Some with count = 0 is ever the reason: a tree whose
\* misplaced Some statements all have a count of at least 1 is not reported.
C5_OnlyCountZeroIsFlagged ==
    (HasRun("OptionalNotUnderAnd") /\ ~OptionalUnderNonAnd(rule.statement))
        => ~Violation("OptionalNotUnderAnd")

\* C5's case: a Some(count >= 1) under a non-And parent, and no report
C5_Witness ==
    /\ HasRun("OptionalNotUnderAnd")
    /\ CountedSomeUnderNonAnd(rule.statement)
    /\ ~Violation("OptionalNotUnderAnd")

(* ======================================================================= *)
(* Properties of duplicate-feature detection                               *)
(* ======================================================================= *)

\* the keys the drawn feature lists use
Keys == {"string", "import", "description"} \cup NestingKeys

Digits == {"0", "1", "2", "3", "4", "5", "6", "7", "8", "9"}

\* an 'N or more' count: digits, then " or more"
IsCount(key) ==
    LET c == Chars(key)
        n == Len(c) - Len(Chars(" or more"))
    IN  /\ n >= 1
        /\ SubSeq(c, n + 1, Len(c)) = Chars(" or more")
        /\ \A i \in 1..n : c[i] \in Digits

\* the logic combinators: or, and, not, optional, some, and the counts
LogicKeys ==
    {k \in Keys : k \in {"or", "and", "not", "optional", "some"} \/ IsCount(k)}

\* the markers the specification lists: the logic combinators, call, and the
\* scope names, static and dynamic
ListedKeys ==
    LogicKeys
    \cup {k \in Keys : k \in {"call", "file", "function", "basic block", "instruction",
                              "process", "thread", "span of calls"}}

\* the keys the code takes for statements
CodeKeys == {k \in Keys : is_statement(k)}

HasKeyIn(item, keys) == \E j \in 1..Len(item.pairs) : item.pairs[j].key \in keys

RECURSIVE SiblingLists(_, _)
\* the sibling lists of a feature list: the list itself and, at any depth,
\* the child lists of the items whose key is one of 'keys'
SiblingLists(features, keys) ==
    {features}
    \cup UNION {SiblingLists(features[i].pairs[j].list, keys) :
                  <<i, j>> \in {x \in (1..Len(features)) \X (1..2) :
                                  /\ features[x[1]].isDict
                                  /\ x[2] <= Len(features[x[1]].pairs)
                                  /\ features[x[1]].pairs[x[2]].key \in keys
                                  /\ features[x[1]].pairs[x[2]].isList}}

\* the positions of a list's leaf features: the mappings with no key in 'keys'
LeafPositions(list, keys) ==
    {i \in 1..Len(list) : list[i].isDict /\ ~HasKeyIn(list[i], keys)}

RECURSIVE Ascending(_)
\* a set of numbers as an ascending sequence
Ascending(S) ==
    IF S = {} THEN <<>>
    ELSE LET m == CHOOSE x \in S : \A y \in S : x <= y
         IN  <<m>> \o Ascending(S \ {m})

\* one entry per key that two or more leaves of some sibling list share: the
\* key, and the lines of all of that list's leaves with the key
ExpectedEntries(features, keys) ==
    {[key |-> get_feature_key(list[i]),
      lines |-> Ascending({list[k].line :
                  k \in {k \in LeafPositions(list, keys) :
                            get_feature_key(list[k]) = get_feature_key(list[i])}})] :
        <<list, i>> \in {x \in SiblingLists(features, keys) \X (1..MaxItems) :
                           /\ x[2] \in LeafPositions(x[1], keys)
                           /\ \E k \in LeafPositions(x[1], keys) :
                                 /\ k # x[2]
                                 /\ get_feature_key(x[1][k]) = get_feature_key(x[1][x[2]])}}

ReportedEntries ==
    {recommendation["DuplicateFeatureUnderStatement"][k] :
        k \in 1..Len(recommendation["DuplicateFeatureUnderStatement"])}

\* C6: for the sibling lists under the logic combinators and every feature
\* kind, DuplicateFeatureUnderStatement reports a violation exactly when
\* some key occurs twice in one sibling list, and the recommendation holds
\* exactly one entry per duplicated key, with all its lines in ascending
\* order (none when no key repeats).
C6_DuplicatesOfEveryKind ==
    HasRun("DuplicateFeatureUnderStatement") =>
        LET expected == ExpectedEntries(rule.features, LogicKeys)
        IN  /\ Violation("DuplicateFeatureUnderStatement") <=> expected # {}
            /\ ReportedEntries = expected
            /\ Len(recommendation["DuplicateFeatureUnderStatement"])
                   = Cardinality(expected)

\* C7: an item is taken for a combinator marker exactly when its key is one
\* of the listed words, and a leaf repeated inside any nested sub-statement
\* or subscope is reported.
C7_MarkersAreTheListedKeys ==
    HasRun("DuplicateFeatureUnderStatement") =>
        /\ \A list \in SiblingLists(rule.features, Keys) :
             \A i \in 1..Len(list) :
                list[i].isDict =>
                    \A j \in 1..Len(list[i].pairs) :
                        is_statement(list[i].pairs[j].key)
                            <=> list[i].pairs[j].key \in ListedKeys
        /\ ExpectedEntries(rule.features, ListedKeys) # {}
               => Violation("DuplicateFeatureUnderStatement")

\* the lists the code searches, and the pairs of leaves it compares in them
ComparedPairs ==
    {x \in SiblingLists(rule.features, CodeKeys) \X (1..MaxItems) \X (1..MaxItems) :
        /\ x[2] < x[3]
        /\ x[2] \in LeafPositions(x[1], CodeKeys)
        /\ x[3] \in LeafPositions(x[1], CodeKeys)}

\* two leaves are reported as duplicates of each other: one entry of the
\* recommendation lists both their lines
ReportedTogether(a, b) ==
    \E e \in ReportedEntries :
        /\ \E k \in 1..Len(e.lines) : e.lines[k] = a.line
        /\ \E k \in 1..Len(e.lines) : e.lines[k] = b.line

\* kind and value: the first entry of the mapping
SameKindAndValue(a, b) ==
    /\ a.pairs[1].key = b.pairs[1].key
    /\ Format(a.pairs[1]) = Format(b.pairs[1])

\* every entry of the mapping (kind, value, description, ...), in order
SameEntries(a, b) ==
    /\ Len(a.pairs) = Len(b.pairs)
    /\ \A j \in 1..Len(a.pairs) :
          /\ a.pairs[j].key = b.pairs[j].key
          /\ Format(a.pairs[j]) = Format(b.pairs[j])

\* C8 as stated: two sibling leaves are duplicates exactly when their kind
\* and value are equal, whatever else is attached to them.
C8_KeyIsKindAndValue ==
    HasRun("DuplicateFeatureUnderStatement") =>
        \A x \in ComparedPairs :
            ReportedTogether(x[1][x[2]], x[1][x[3]])
                <=> SameKindAndValue(x[1][x[2]], x[1][x[3]])

\* C8 (amended): two sibling leaves are duplicates exactly when all their
\* entries are equal, the description included.
C8_KeyIsEveryEntry ==
    HasRun("DuplicateFeatureUnderStatement") =>
        \A x \in ComparedPairs :
            ReportedTogether(x[1][x[2]], x[1][x[3]])
                <=> SameEntries(x[1][x[2]], x[1][x[3]])

\* C8's case: siblings of one kind and value that differ in the description
\* and are not reported, beside two equal siblings that are
C8_Witness ==
    /\ HasRun("DuplicateFeatureUnderStatement")
    /\ \E x \in ComparedPairs :
          /\ SameKindAndValue(x[1][x[2]], x[1][x[3]])
          /\ ~SameEntries(x[1][x[2]], x[1][x[3]])
          /\ ~ReportedTogether(x[1][x[2]], x[1][x[3]])
    /\ \E x \in ComparedPairs :
          /\ SameEntries(x[1][x[2]], x[1][x[3]])
          /\ ReportedTogether(x[1][x[2]], x[1][x[3]])

(* ======================================================================= *)
(* Properties of the cross-rule scope check                                *)
(* ======================================================================= *)

\* x references y: by its name, or by a namespace y is declared under
References(rules, x, y) ==
    /\ x \in DOMAIN rules
    /\ \/ /\ y \in rules[x].refs
          /\ ~\E z \in DOMAIN rules : rules[z].namespace = y
       \/ /\ y \in DOMAIN rules
          /\ rules[y].namespace # ""
          /\ rules[y].namespace \in rules[x].refs

\* the names that stand in the collection or among its references
Mentioned(rules) == DOMAIN rules \cup UNION {rules[x].refs : x \in DOMAIN rules}

\* y is reached from x by a chain of references
TransitivelyReferences(rules, x, y) ==
    \E n \in 1..Cardinality(Mentioned(rules)) :
        \E chain \in [0..n -> Mentioned(rules)] :
            /\ chain[0] = x /\ chain[n] = y
            /\ \A k \in 0..(n - 1) : References(rules, chain[k], chain[k + 1])

\* the transitive dependencies of the rule that exist in the collection
KnownDependencies(rules, name) ==
    {d \in DOMAIN rules : TransitivelyReferences(rules, name, d)}

\* both declare the scope kind, and the dependency's is not compatible
StaticMismatch(r, d) ==
    /\ r.static # None /\ d.static # None
    /\ ~is_subscope_compatible(STATIC_SCOPE_ORDER, r.static, d.static)

DynamicMismatch(r, d) ==
    /\ r.dynamic # None /\ d.dynamic # None
    /\ ~is_subscope_compatible(DYNAMIC_SCOPE_ORDER, r.dynamic, d.dynamic)

ScopeViolation == Violation("RuleDependencyScopeMismatch")
ScopeText == recommendation["RuleDependencyScopeMismatch"][1]

\* C9: RuleDependencyScopeMismatch reports a violation exactly when some
\* transitive dependency that exists in the collection declares a static
\* (or dynamic) scope that is not compatible with the static (or dynamic)
\* scope the rule declares; absent dependencies and dependencies without the
\* scope kind never count; the recommendation names an incompatible
\* dependency, the first one met, with the scope kind it failed on.
C9_MismatchIffIncompatibleDependency ==
    HasRun("RuleDependencyScopeMismatch") =>
        LET rules == ctx.rules
            r == rules[rule.name]
            deps == KnownDependencies(rules, rule.name)
        IN  /\ ScopeViolation <=>
                  \E d \in deps : StaticMismatch(r, rules[d]) \/ DynamicMismatch(r, rules[d])
            /\ ScopeViolation =>
                  /\ ScopeText.rule = rule.name
                  /\ ScopeText.dep \in deps
                  /\ ScopeText.kind = "static" =>
                        /\ StaticMismatch(r, rules[ScopeText.dep])
                        /\ ScopeText.scope = r.static
                        /\ ScopeText.dep_scope = rules[ScopeText.dep].static
                  /\ ScopeText.kind = "dynamic" =>
                        /\ DynamicMismatch(r, rules[ScopeText.dep])
                        /\ ~StaticMismatch(r, rules[ScopeText.dep])
                        /\ ScopeText.scope = r.dynamic
                        /\ ScopeText.dep_scope = rules[ScopeText.dep].dynamic

\* C9's case: an incompatible dependency reached only through another rule
\* is reported, past a name that is no rule of the collection or a
\* dependency that lacks the scope kind
C9_Witness ==
    /\ HasRun("RuleDependencyScopeMismatch") /\ ScopeViolation
    /\ ScopeText.dep \notin ctx.rules[rule.name].refs
    /\ ScopeText.kind = "static"
    /\ \E d \in KnownDependencies(ctx.rules, rule.name) :
          d # ScopeText.dep /\ ctx.rules[d].static = None

\* the static check reported the dependency d
StaticReported(d) ==
    ScopeViolation /\ ScopeText.kind = "static" /\ ScopeText.dep = d

StaticRank ==
    "file" :> 4 @@ "function" :> 3 @@ "basic block" :> 2 @@ "instruction" :> 1
DynamicRank ==
    "file" :> 5 @@ "process" :> 4 @@ "thread" :> 3 @@ "span of calls" :> 2
    @@ "call" :> 1

\* the dependency d declares a scope above the one of the rule r
StaticAbove(r, d) ==
    r.static # None /\ d.static # None /\ StaticRank[d.static] > StaticRank[r.static]
DynamicAbove(r, d) ==
    r.dynamic # None /\ d.dynamic # None
    /\ DynamicRank[d.dynamic] > DynamicRank[r.dynamic]

Resolution == Resolve(ctx.rules, DirectReferences(ctx.rules, rule.name), {}, 0)

\* C12: dependency resolution terminates and returns a finite set of rule
\* names for every collection, cyclic references included (a rule that
\* references a namespace holding a rule that references it back); the
\* result is the set of the names reached through references to rules and
\* through the rules of referenced namespaces; a reference to a name or
\* namespace that does not exist is no error: the name is kept and not
\* expanded.
C12_ResolutionTerminatesWithReachableNames ==
    HasRun("RuleDependencyScopeMismatch") =>
        /\ Resolution.finished
        /\ Resolution.steps <= Cardinality(Mentioned(ctx.rules))
        /\ IsFiniteSet(Resolution.names)
        /\ Resolution.names = get_dependencies(ctx.rules, rule.name)
        /\ Resolution.names =
              {y \in Mentioned(ctx.rules) :
                  TransitivelyReferences(ctx.rules, rule.name, y)}

\* C12's case: the rule is among its own dependencies, through a namespace
C12_Witness ==
    /\ HasRun("RuleDependencyScopeMismatch")
    /\ Resolution.finished
    /\ rule.name \in Resolution.names
    /\ \E n \in ctx.rules[rule.name].refs : n \in DOMAIN rules_by_namespace(ctx.rules)

(* ======================================================================= *)
(* The whole run: main, lint(), lint_rule over every category              *)
(* ======================================================================= *)

(* --------------------------- the lint tuples --------------------------- *)

NAME_LINTS ==
    <<"NameCasing", "FilenameDoesntMatchRuleName">>

SCOPES_LINTS ==
    <<"MissingScopes", "MissingStaticScope", "MissingDynamicScope",
      "InvalidStaticScope", "InvalidDynamicScope", "InvalidScopes">>

META_LINTS ==
    <<"MissingNamespace", "NamespaceDoesntMatchRulePath", "MissingAuthors",
      "MissingExamples", "MissingExampleOffset", "ExampleFileDNE",
      "UnusualMetaField", "LibRuleNotInLibDirectory",
      "LibRuleHasNamespace", "InvalidAttckOrMbcTechnique",
      "IncorrectValueType">>

FEATURE_LINTS ==
    <<"FeatureStringTooShort", "FeatureNegativeNumber",
      "FeatureNtdllNtoskrnlApi", "FeatureRegexContainsUnescapedPeriod",
      "FeatureRegexRegistryControlSetMatchIncomplete">>

FORMAT_LINTS ==
    <<"FormatSingleEmptyLineEOF", "FormatStringQuotesIncorrect",
      "FormatIncorrect">>

\* lint_logic: DoesntMatchExample runs first, then the rest of LOGIC_LINTS
lint_logic == <<"DoesntMatchExample">> \o LOGIC_LINTS

\* itertools.chain(lint_name, lint_scope, lint_meta, lint_logic,
\* lint_features, lint_format): the lints in the order they are reached
chain ==
    NAME_LINTS \o SCOPES_LINTS \o META_LINTS \o lint_logic \o FEATURE_LINTS
    \o FORMAT_LINTS

Lints == {chain[i] : i \in 1..Len(chain)}

WARN == "WARN"
FAIL == "FAIL"

\* the level attribute of a lint class
Lint_level(lint) ==
    IF lint \in {"FeatureRegexContainsUnescapedPeriod", "FeatureNtdllNtoskrnlApi"}
    THEN WARN ELSE FAIL

\* the name attribute of a lint class (its backquotes written as quotes)
Lint_name(lint) ==
    CASE lint = "NameCasing" ->
              "rule name casing"
      [] lint = "FilenameDoesntMatchRuleName" ->
              "filename doesn't match the rule name"
      [] lint = "MissingScopes" ->
              "missing scopes"
      [] lint = "MissingStaticScope" ->
              "missing static scope"
      [] lint = "MissingDynamicScope" ->
              "missing dynamic scope"
      [] lint = "InvalidStaticScope" ->
              "invalid static scope"
      [] lint = "InvalidDynamicScope" ->
              "invalid static scope"
      [] lint = "InvalidScopes" ->
              "invalid scopes"
      [] lint = "MissingNamespace" ->
              "missing rule namespace"
      [] lint = "NamespaceDoesntMatchRulePath" ->
              "file path doesn't match rule namespace"
      [] lint = "MissingAuthors" ->
              "missing authors"
      [] lint = "MissingExamples" ->
              "missing examples"
      [] lint = "MissingExampleOffset" ->
              "missing example offset"
      [] lint = "ExampleFileDNE" ->
              "referenced example doesn't exist"
      [] lint = "UnusualMetaField" ->
              "unusual meta field"
      [] lint = "LibRuleNotInLibDirectory" ->
              "lib rule not found in lib directory"
      [] lint = "LibRuleHasNamespace" ->
              "lib rule has a namespace"
      [] lint = "InvalidAttckOrMbcTechnique" ->
              "att&ck/mbc entry is malformed or does not exist"
      [] lint = "IncorrectValueType" ->
              "incorrect value type"
      [] lint = "DoesntMatchExample" ->
              "doesn't match on referenced example"
      [] lint = "StatementWithSingleChildStatement" ->
              "rule contains one or more statements with a single child statement"
      [] lint = "OrStatementWithAlwaysTrueChild" ->
              "rule contains an 'or' statement that's always True because of an 'optional' or other child statement that's always True"
      [] lint = "NotNotUnderAnd" ->
              "rule contains a 'not' statement that's not found under an 'and' statement"
      [] lint = "OptionalNotUnderAnd" ->
              "rule contains an 'optional' or '0 or more' statement that's not found under an 'and' statement"
      [] lint = "DuplicateFeatureUnderStatement" ->
              "rule contains a duplicate features"
      [] lint = "RuleDependencyScopeMismatch" ->
              "rule dependency scope mismatch"
      [] lint = "FeatureStringTooShort" ->
              "feature string too short"
      [] lint = "FeatureNegativeNumber" ->
              "feature value is negative"
      [] lint = "FeatureNtdllNtoskrnlApi" ->
              "feature api may overlap with ntdll and ntoskrnl"
      [] lint = "FeatureRegexContainsUnescapedPeriod" ->
              "feature regex contains unescaped period"
      [] lint = "FeatureRegexRegistryControlSetMatchIncomplete" ->
              "feature regex registry control set match incomplete"
      [] lint = "FormatSingleEmptyLineEOF" ->
              "EOF format"
      [] lint = "FormatStringQuotesIncorrect" ->
              "rule string quotes incorrect"
      [] lint = "FormatIncorrect" ->
              "rule format incorrect"

(* ------------------------------ rule.meta ------------------------------ *)

\* rule.meta is a function from the keys it holds to their values:
\* rule.meta.get(key) is None for a key it does not hold
meta_get(meta, key) == IF key \in DOMAIN meta THEN meta[key] ELSE None

\* rule.meta.get(key) is None
get_is_none(meta, key) == key \notin DOMAIN meta

\* an exception that leaves check_rule
Raises(exception) == [raises |-> exception]

\* the value of meta.scopes: a mapping that holds the keys it is given
ScopesValue(static, dynamic) ==
    [k \in {x \in {"static", "dynamic"} :
               (x = "static" /\ static # None) \/ (x = "dynamic" /\ dynamic # None)}
        |-> IF k = "static" THEN static ELSE dynamic]

\* an entry of meta.examples is a string, held as its parts between colons
\* ("<id>" or "<id>:<offset>"), or None for an empty entry
NoneEntry == <<>>
Example(id) == <<id>>
ExampleAt(id, offset) == <<id, offset>>

\* example.partition(":")[0]
partition_head(example) == example[1]

\* the truth value of an entry: None and the empty string are false
truthy(example) == example # NoneEntry /\ example # <<"">>

\* a value of meta.examples: a list of entries, or a string, which yields
\* its characters when iterated
ListValue(items) == [isList |-> TRUE, items |-> items]
(* ----------------------------- SCOPES_LINTS ---------------------------- *)

MissingScopes_check_rule(c, r) == Result("scopes" \notin DOMAIN r.meta, <<>>)

\* '"static" not in rule.meta.get("scopes")': a TypeError when it is None
MissingStaticScope_check_rule(c, r) ==
    IF get_is_none(r.meta, "scopes") THEN Raises("TypeError")
    ELSE Result("static" \notin DOMAIN meta_get(r.meta, "scopes"), <<>>)

MissingDynamicScope_check_rule(c, r) ==
    IF get_is_none(r.meta, "scopes") THEN Raises("TypeError")
    ELSE Result("dynamic" \notin DOMAIN meta_get(r.meta, "scopes"), <<>>)

\* 'rule.meta.get("scopes").get(...)': an AttributeError when it is None
InvalidStaticScope_check_rule(c, r) ==
    IF get_is_none(r.meta, "scopes") THEN Raises("AttributeError")
    ELSE Result(meta_get(meta_get(r.meta, "scopes"), "static") \notin
                    {"file", "function", "basic block", "instruction", "unsupported"},
                <<>>)

InvalidDynamicScope_check_rule(c, r) ==
    IF get_is_none(r.meta, "scopes") THEN Raises("AttributeError")
    ELSE Result(meta_get(meta_get(r.meta, "scopes"), "dynamic") \notin
                    {"file", "process", "thread", "span of calls", "call",
                     "unsupported"},
                <<>>)

InvalidScopes_check_rule(c, r) ==
    IF get_is_none(r.meta, "scopes") THEN Raises("AttributeError")
    ELSE Result(/\ meta_get(meta_get(r.meta, "scopes"), "static") = "unsupported"
                /\ meta_get(meta_get(r.meta, "scopes"), "dynamic") = "unsupported",
                <<>>)

(* ------------------------------ META_LINTS ----------------------------- *)

\* rule.meta.get("capa/nursery"), as a truth value
is_nursery_rule(r) == ~get_is_none(r.meta, "capa/nursery") /\ r.meta["capa/nursery"]

MissingNamespace_check_rule(c, r) ==
    Result(/\ "namespace" \notin DOMAIN r.meta
           /\ ~is_nursery_rule(r)
           /\ "maec/malware-category" \notin DOMAIN r.meta
           /\ "lib" \notin DOMAIN r.meta,
           <<>>)

MissingAuthors_check_rule(c, r) == Result("authors" \notin DOMAIN r.meta, <<>>)

MissingExamples_check_rule(c, r) ==
    Result(\/ "examples" \notin DOMAIN r.meta
           \/ ~r.meta["examples"].isList
           \/ Len(r.meta["examples"].items) = 0
           \/ r.meta["examples"].items = <<NoneEntry>>,
           <<>>)

\* `":" not in example` for some non-empty entry of a list of examples, under
\* the legacy key meta.scope; None, a false value, otherwise
MissingExampleOffset_check_rule(c, r) ==
    Result(/\ meta_get(r.meta, "scope") \in {"function", "basic block"}
           /\ ~get_is_none(r.meta, "examples")
           /\ r.meta["examples"].isList
           /\ \E i \in 1..Len(r.meta["examples"].items) :
                 LET example == r.meta["examples"].items[i]
                 IN  truthy(example) /\ Len(example) = 1,
           <<>>)

\* `not rule.meta.get("examples")`: no key, an empty list or an empty string
no_examples(r) ==
    \/ get_is_none(r.meta, "examples")
    \/ r.meta["examples"].items = <<>>

ExampleFileDNE_check_rule(c, r) ==
    IF no_examples(r) THEN Result(FALSE, <<>>)
    ELSE LET examples == r.meta["examples"].items
             found == \E i \in 1..Len(examples) :
                         /\ truthy(examples[i])
                         /\ partition_head(examples[i]) \in DOMAIN c.samples
         IN  Result(~found, <<>>)

(* -------------------------- DoesntMatchExample ------------------------- *)

\* the capability engine on a sample: the names of the rules that match, or
\* a failure
Matches(names) == [fails |-> FALSE, matches |-> names]
EngineFails == [fails |-> TRUE, matches |-> {}]

\* get_sample_capabilities(ctx, path): the cached set when there is one;
\* else the engine runs, and its result is stored unless it fails
get_sample_capabilities(cache, calls, engine, path) ==
    IF path \in DOMAIN cache
    THEN [raises |-> FALSE, capabilities |-> cache[path], cache |-> cache,
          calls |-> calls]
    ELSE IF engine[path].fails
    THEN [raises |-> TRUE, capabilities |-> {}, cache |-> cache,
          calls |-> [calls EXCEPT ![path] = @ + 1]]
    ELSE [raises |-> FALSE, capabilities |-> engine[path].matches,
          cache |-> (path :> engine[path].matches) @@ cache,
          calls |-> [calls EXCEPT ![path] = @ + 1]]

\* what check_rule leaves behind: its result, the cache and the engine calls
Outcome(res, cache, calls) == [res |-> res, cache |-> cache, calls |-> calls]

RECURSIVE DoesntMatchExample_each(_, _, _, _, _, _, _)
\* for example in examples: ...
DoesntMatchExample_each(c, r, engine, examples, i, cache, calls) ==
    IF i > Len(examples) THEN Outcome(Result(FALSE, <<>>), cache, calls)
    ELSE IF examples[i] = NoneEntry
    THEN Outcome(Raises("AttributeError"), cache, calls)
    ELSE LET example_id == partition_head(examples[i]) IN
         IF example_id \notin DOMAIN c.samples
         THEN DoesntMatchExample_each(c, r, engine, examples, i + 1, cache, calls)
         ELSE LET got == get_sample_capabilities(cache, calls, engine,
                                                 c.samples[example_id])
              IN  IF got.raises
                  THEN Outcome(Result(TRUE, <<>>), got.cache, got.calls)
                  ELSE IF r.name \notin got.capabilities
                  THEN Outcome(Result(TRUE, <<>>), got.cache, got.calls)
                  ELSE DoesntMatchExample_each(c, r, engine, examples, i + 1,
                                               got.cache, got.calls)

DoesntMatchExample_check_rule(c, r, engine, calls) ==
    IF ~c.is_thorough
    THEN Outcome(Result(FALSE, <<>>), c.capabilities_by_sample, calls)
    ELSE IF no_examples(r)
    THEN Outcome(Result(FALSE, <<>>), c.capabilities_by_sample, calls)
    ELSE DoesntMatchExample_each(c, r, engine, r.meta["examples"].items, 1,
                                 c.capabilities_by_sample, calls)

(* ------------------------- the text of a rule -------------------------- *)

\* the longest rule text of the model
MaxText == 3

\* rule.definition: the rule's source text, a sequence of characters (a
\* letter, a line feed, a carriage return)
Texts == UNION {[1..n -> {"a", "\n", "\r"}] : n \in 0..MaxText}

\* Python's str.endswith
endswith(text, suffix) ==
    /\ Len(text) >= Len(suffix)
    /\ SubSeq(text, Len(text) - Len(suffix) + 1, Len(text)) = suffix

\* a faulty variant: any text that ends with a newline passes
FormatSingleEmptyLineEOF_any_newline(c, r) ==
    Result(~endswith(r.definition, <<"\n">>), <<>>)

FormatSingleEmptyLineEOF_check_rule(c, r) ==
    IF /\ endswith(r.definition, <<"\n">>)
       /\ ~endswith(r.definition, <<"\n", "\n">>)
    THEN Result(FALSE, <<>>)
    ELSE Result(TRUE, <<>>)

(* ----------------------- features and their values -------------------- *)

\* a leaf of rule.statement with its class (Regex, String, ...) and value
Feature(type, value) ==
    [kind |-> "Feature", count |-> 0, children |-> <<>>,
     type |-> type, value |-> value]

\* isinstance(feature, types); a leaf without a class is a feature of some
\* other class (an API, a number, ...)
isinstance(feature, types) == "type" \in DOMAIN feature /\ feature.type \in types

\* get_rule_features: the leaves of the statement, left to right
get_rule_features(r) ==
    LET RECURSIVE rec(_)
        RECURSIVE rec_each(_, _)
        rec(statement) ==
            IF IsStatement(statement)
            THEN rec_each(get_children(statement), 1)
            ELSE <<statement>>
        rec_each(children, i) ==
            IF i > Len(children) THEN <<>>
            ELSE rec(children[i]) \o rec_each(children, i + 1)
    IN  rec(r.statement)

\* get_features: the features of the rule, then those of its dependencies,
\* one list per iteration order of the set of dependencies
get_features(c, r) ==
    LET RECURSIVE extend(_, _)
        extend(order, i) ==
            IF i > Len(order) THEN <<>>
            ELSE get_rule_features(c.rules[order[i]]) \o extend(order, i + 1)
    IN  {get_rule_features(r) \o extend(order, 1) :
            order \in Orders(get_dependencies(c.rules, r.name))}

\* str.lower, on the letters that occur in upper case
lower(text) ==
    [i \in 1..Len(text) |->
        CASE text[i] = "S" -> "s" [] text[i] = "Y" -> "y" [] text[i] = "T" -> "t"
          [] text[i] = "E" -> "e" [] text[i] = "M" -> "m" [] text[i] = "C" -> "c"
          [] OTHER -> text[i]]

\* str.removeprefix, str.removesuffix
removeprefix(text, prefix) ==
    IF Len(text) >= Len(prefix) /\ SubSeq(text, 1, Len(prefix)) = prefix
    THEN SubSeq(text, Len(prefix) + 1, Len(text))
    ELSE text

removesuffix(text, suffix) ==
    IF endswith(text, suffix)
    THEN SubSeq(text, 1, Len(text) - Len(suffix))
    ELSE text

\* str.find of one character: the lowest index from 0, -1 when absent
find(text, ch) ==
    IF \E i \in 1..Len(text) : text[i] = ch
    THEN (CHOOSE i \in 1..Len(text) :
              text[i] = ch /\ \A j \in 1..(i - 1) : text[j] # ch) - 1
    ELSE -1

(* --------------------------- the feature lints ------------------------- *)

\* self.recommendation.format(value) on the instance's own attribute: the
\* class text holds the placeholder, a text formatted before holds none and
\* comes back as it is
format(old, value) == IF old = <<>> THEN <<value>> ELSE old

FeatureStringTooShort_check_features(c, features, old) ==
    LET RECURSIVE each(_)
        each(i) ==
            IF i > Len(features) THEN Result(FALSE, old)
            ELSE IF /\ isinstance(features[i], {"String", "Substring"})
                    /\ Len(features[i].value) < 4
                 THEN Result(TRUE, format(old, features[i].value))
                 ELSE each(i + 1)
    IN  each(1)

\* the loop of the check: features that are no Regex are passed over, and
\* the first Regex feature ends the loop with True or False; the end of the
\* list gives None, which run_feature_lints takes as no violation
FeatureRegexRegistryControlSetMatchIncomplete_check_features(c, features, old) ==
    LET RECURSIVE each(_)
        each(i) ==
            IF i > Len(features) THEN Result(FALSE, old)
            ELSE IF ~isinstance(features[i], {"Regex"}) THEN each(i + 1)
            ELSE LET pat == lower(features[i].value)
                 IN  IF /\ \/ /\ Contains(pat, Chars("system\\\\"))
                              /\ Contains(pat, Chars("controlset"))
                           \/ Contains(pat, Chars("currentcontrolset"))
                        /\ ~Contains(pat,
                              Chars("system\\\\(controlset\\d{3}|currentcontrolset)"))
                     THEN Result(TRUE, old)
                     ELSE Result(FALSE, old)
    IN  each(1)

\* `for i, char in enumerate(pat[0:index][::-1])`: n is the value of i at
\* the first character that is no backslash, and there is none when n is
\* the length of the text before the period
FeatureRegexContainsUnescapedPeriod_check_features(c, features, old) ==
    LET RECURSIVE backslashes(_)
        backslashes(reversed) ==
            IF reversed # <<>> /\ Head(reversed) = "\\"
            THEN 1 + backslashes(Tail(reversed))
            ELSE 0
        RECURSIVE each(_)
        each(i) ==
            IF i > Len(features) THEN Result(FALSE, old)
            ELSE IF ~isinstance(features[i], {"Regex"}) THEN each(i + 1)
            ELSE LET value == features[i].value
                     pat == removesuffix(removesuffix(removeprefix(value, Chars("/")),
                                                      Chars("/i")), Chars("/"))
                     index == find(pat, ".")
                     n == backslashes([k \in 1..index |-> pat[index + 1 - k]])
                 IN  IF index = -1 THEN Result(FALSE, old)
                     ELSE IF /\ index < Len(pat) - 1
                             /\ pat[index + 2] \in {"*", "+", "?", "{"}
                          THEN Result(FALSE, old)
                     ELSE IF index = 0 THEN Result(TRUE, <<value>>)
                     ELSE IF pat[index] # "\\" THEN Result(TRUE, <<value>>)
                     ELSE IF n < index /\ n % 2 = 0 THEN Result(TRUE, <<value>>)
                     ELSE each(i + 1)
    IN  each(1)

(* ---------------------- InvalidAttckOrMbcTechnique --------------------- *)

\* an entry of rule.meta["att&ck"]: whether the text matches self.reg, and
\* what _entry_check finds in self.data for its category, id and name
Entry(id, wellformed, category_known, id_known, name_matches) ==
    [id |-> id, wellformed |-> wellformed, category_known |-> category_known,
     id_known |-> id_known, name_matches |-> name_matches]

\* self.enabled_frameworks: the keys of the data file
enabled_frameworks == <<"att&ck", "mbc">>

\* _entry_check: the text it leaves on the instance when it returns True
entry_check(entry, old) ==
    IF ~entry.category_known
    THEN Result(TRUE, <<[text |-> "Unknown category", entry |-> entry.id]>>)
    ELSE IF ~entry.id_known
    THEN Result(TRUE, <<[text |-> "Unknown entry ID", entry |-> entry.id]>>)
    ELSE IF ~entry.name_matches
    THEN Result(TRUE, <<[text |-> "should be associated to entry", entry |-> entry.id]>>)
    ELSE Result(FALSE, old)

\* the two loops of check_rule: framework k, entry i of its list
InvalidAttckOrMbcTechnique_check_rule(c, r, old) ==
    LET RECURSIVE each(_, _)
        each(k, i) ==
            IF k > Len(enabled_frameworks) THEN Result(FALSE, old)
            ELSE IF enabled_frameworks[k] \notin DOMAIN r.meta THEN each(k + 1, 1)
            ELSE IF i > Len(r.meta[enabled_frameworks[k]]) THEN each(k + 1, 1)
            ELSE LET entry == r.meta[enabled_frameworks[k]][i]
                 IN  IF ~entry.wellformed THEN Result(TRUE, old)
                     ELSE IF entry_check(entry, old).violation
                          THEN entry_check(entry, old)
                          ELSE each(k, i + 1)
    IN  each(1, 1)

(* ------------------ the lints held by what they report ----------------- *)

\* the lints whose check reads parts of a rule that are not represented
\* (its name and path, its other meta fields, its numbers and API names, the
\* layout of its text): the rule carries the ones that hold for it
OtherLints ==
    {"NameCasing", "FilenameDoesntMatchRuleName", "NamespaceDoesntMatchRulePath",
     "UnusualMetaField", "LibRuleNotInLibDirectory", "LibRuleHasNamespace",
     "IncorrectValueType", "FeatureNegativeNumber", "FeatureNtdllNtoskrnlApi"}
    \cup ({FORMAT_LINTS[i] : i \in 1..Len(FORMAT_LINTS)}
          \ {"FormatSingleEmptyLineEOF"})

(* ------------------------- the runs of the model ----------------------- *)

\* a rule of the collection with its meta and the other lints that hold
RuleOf(entry, meta, holds) ==
    LET \* the text of a rule that ends as it should
        DefaultDefinition == <<"a", "\n">>
    IN  [static |-> entry.static, dynamic |-> entry.dynamic,
         subscope |-> entry.subscope, refs |-> entry.refs,
         namespace |-> entry.namespace, meta |-> meta, holds |-> holds,
         statement |-> DefaultStatement, definition |-> DefaultDefinition]

\* rule.meta from the keys that are given a value ({} for a key left out)
Meta(scopes, examples, nursery, scope, authors) ==
    LET given == "scopes" :> scopes @@ "examples" :> examples
                 @@ "capa/nursery" :> nursery @@ "scope" :> scope
                 @@ "authors" :> authors @@ "namespace" :> {"ns"}
    IN  [k \in {x \in DOMAIN given : given[x] # {}} |-> CHOOSE v \in given[k] : TRUE]

\* ctx.samples: a file name and a hash of the same file, and a second file
Samples == "s1" :> "p1" @@ "h1" :> "p1" @@ "s2" :> "p2"
SamplePaths == {Samples[k] : k \in DOMAIN Samples}

\* the rule A: every combination of scopes, examples, nursery and other lints
RulesA ==
    LET ScopesValues ==
            {{}, {ScopesValue("function", "unsupported")}, {ScopesValue(None, "process")}}
        StrValue(chars) ==
            [isList |-> FALSE, items |-> [i \in 1..Len(chars) |-> <<chars[i]>>]]
        ExamplesValues ==
            {{}, {ListValue(<<>>)}, {ListValue(<<NoneEntry>>)}, {StrValue(<<"a", "b">>)},
             {ListValue(<<ExampleAt("s1", "0x10")>>)}, {ListValue(<<Example("zz")>>)},
             {ListValue(<<Example("zz"), Example("s1")>>)},
             {ListValue(<<Example("s1"), Example("h1")>>)},
             {ListValue(<<Example("s1"), Example("s2")>>)},
             {ListValue(<<NoneEntry, Example("s1")>>)}}
        HoldsValues ==
            {{}, {"FeatureNtdllNtoskrnlApi"},
             {"NameCasing", "FeatureNtdllNtoskrnlApi", "FormatIncorrect"}}
    IN  {RuleOf(RuleEntry("function", None, FALSE, {}, ""),
                Meta(s, e, n, {}, {"author"}), h) :
            s \in ScopesValues, e \in ExamplesValues, n \in {{}, {TRUE}},
            h \in HoldsValues}

\* the rule B: a rule with an example that exists, a subscope rule, and a
\* nursery rule under the legacy scope key without authors
RulesB ==
    {RuleOf(RuleEntry("function", None, FALSE, {}, ""),
            Meta({ScopesValue("function", "unsupported")},
                 {ListValue(<<ExampleAt("s1", "0x10")>>)}, {}, {}, {"author"}), {}),
     RuleOf(RuleEntry("function", None, TRUE, {}, ""),
            Meta({ScopesValue("function", "unsupported")}, {}, {}, {}, {}), {}),
     RuleOf(RuleEntry("function", None, FALSE, {}, ""),
            Meta({ScopesValue("function", "unsupported")},
                 {ListValue(<<Example("h1")>>)}, {TRUE}, {"function"}, {}), {})}

\* the rule A with a reference to a name that is no rule
RuleAbsentReference ==
    RuleOf(RuleEntry("function", None, FALSE, {"missing"}, ""),
           Meta({ScopesValue("function", "unsupported")},
                {ListValue(<<Example("s1")>>)}, {}, {}, {"author"}), {})

\* a rule with scopes, an example that exists and an author
RuleGood ==
    RuleOf(RuleEntry("function", None, FALSE, {}, ""),
           Meta({ScopesValue("function", "unsupported")},
                {ListValue(<<ExampleAt("s1", "0x10")>>)}, {}, {}, {"author"}), {})

\* the features of the model: regular expressions as the rule writes them
\* (without a period; with a period that is bare, escaped, quantified,
\* leading, behind two backslashes, or the second of the pattern; with a
\* control set reference that is partial or complete), a short string, a
\* string of four characters and a feature of another class
Features ==
    {Feature("Regex", Chars(v)) :
        v \in {"/ab/", "/a.b/", "/a\\.b/", "/a.*/", "/.b/", "/\\\\.b/",
               "/a\\\\.b/", "/a\\.b.c/", "/SYSTEM\\\\CurrentControlSet\\\\a/i",
               "/system\\\\(controlset\\d{3}|currentcontrolset)\\\\a/",
               "/system\\\\controlset001\\\\a/"}}
    \cup {Feature("String", Chars("ab")), Feature("String", Chars("abcd")), Leaf}

\* the longest list of features of a rule of the model
MaxFeatures == 2

\* a rule whose statement is and(features...)
WithFeatures(r, features) == [r EXCEPT !.statement = Node("And", 0, features)]

\* a rule with more fields in its meta
WithFields(r, fields) == [r EXCEPT !.meta = fields @@ @]

NoEngine == [p \in SamplePaths |-> EngineFails]

Context(samples, rules, is_thorough) ==
    [samples |-> samples, rules |-> rules, is_thorough |-> is_thorough,
     capabilities_by_sample |-> [p \in {} |-> {}]]

\* main before it looks at the samples path
Main(samples_exists, engine) ==
    [status |-> "main", samples_exists |-> samples_exists, engine |-> engine,
     calls |-> [p \in SamplePaths |-> 0], queue |-> <<>>, printed |-> <<>>,
     ret |-> [n \in {} |-> <<0, 0>>], exit |-> <<>>]

NoRule == [name |-> None]

InitRun ==
    LET \* what the engine finds: the first file fails, or matches both rules,
        \* or only B; the second file matches both
        Engines ==
            {"p1" :> e @@ "p2" :> Matches({"A", "B"}) :
                e \in {EngineFails, Matches({"A", "B"}), Matches({"B"})}}
        StatementFeatures == UNION {[1..n -> Features] : n \in 1..MaxFeatures}
        \* the att&ck and mbc fields of the rule A, and of the rule B: entries
        \* that are in the data, that do not match the format, and one for
        \* each finding of _entry_check
        FieldsA ==
            {"att&ck" :> <<e>> : e \in {Entry("a1", TRUE, TRUE, TRUE, TRUE),
                                        Entry("a1", FALSE, TRUE, TRUE, TRUE),
                                        Entry("a1", TRUE, FALSE, TRUE, TRUE),
                                        Entry("a1", TRUE, TRUE, FALSE, TRUE),
                                        Entry("a1", TRUE, TRUE, TRUE, FALSE)}}
            \cup {"att&ck" :> <<Entry("a1", TRUE, TRUE, TRUE, TRUE),
                                Entry("a2", FALSE, TRUE, TRUE, TRUE)>>,
                  "att&ck" :> <<Entry("a1", TRUE, TRUE, TRUE, TRUE)>>
                      @@ "mbc" :> <<Entry("a2", TRUE, TRUE, TRUE, FALSE)>>,
                  "mbc" :> <<Entry("a1", TRUE, TRUE, TRUE, TRUE),
                             Entry("a2", TRUE, TRUE, FALSE, TRUE)>>}
        FieldsB ==
            {"att&ck" :> <<Entry("b1", FALSE, TRUE, TRUE, TRUE)>>,
             "att&ck" :> <<Entry("b1", TRUE, TRUE, TRUE, FALSE)>>,
             "mbc" :> <<Entry("b1", TRUE, TRUE, TRUE, TRUE)>>}
    IN  /\ \/ /\ \E a \in RulesA, b \in RulesB :
                    ctx = Context(Samples, [A |-> a, B |-> b], FALSE)
              /\ run = Main(TRUE, NoEngine)
           \/ /\ \E a \in RulesA, b \in RulesB :
                    ctx = Context(Samples, [A |-> a, B |-> b], TRUE)
              /\ \E e \in Engines : run = Main(TRUE, e)
           \/ /\ \E b \in RulesB, t \in BOOLEAN :
                    ctx = Context(Samples, [A |-> RuleAbsentReference, B |-> b], t)
              /\ run = Main(TRUE, NoEngine)
           \/ /\ \E b \in RulesB :
                    ctx = Context([k \in {} |-> ""],
                                  [A |-> RuleAbsentReference, B |-> b], FALSE)
              /\ run = Main(FALSE, NoEngine)
           \/ /\ \E text \in Texts :
                    ctx = Context(Samples,
                                  [A |-> [RuleGood EXCEPT !.definition = text],
                                   B |-> RuleGood], FALSE)
              /\ run = Main(TRUE, NoEngine)
           \/ /\ \E features \in StatementFeatures :
                    ctx = Context(Samples,
                                  [A |-> WithFeatures(RuleGood, features),
                                   B |-> WithFeatures(RuleGood,
                                            <<Feature("String", Chars("xy"))>>)],
                                  FALSE)
              /\ run = Main(TRUE, NoEngine)
           \/ /\ \E a \in Features :
                 \E b \in {Feature("Regex", Chars("/a.b/")),
                           Feature("Regex", Chars("/SYSTEM\\\\CurrentControlSet\\\\a/i")),
                           Feature("String", Chars("xy"))} :
                    ctx = Context(Samples,
                                  [A |-> WithFeatures([RuleGood EXCEPT !.refs = {"B"}],
                                                      <<a>>),
                                   B |-> WithFeatures(RuleGood, <<b>>)], FALSE)
              /\ run = Main(TRUE, NoEngine)
           \/ /\ \E a \in FieldsA, b \in FieldsB :
                    ctx = Context(Samples, [A |-> WithFields(RuleGood, a),
                                            B |-> WithFields(RuleGood, b)], FALSE)
              /\ run = Main(TRUE, NoEngine)
        /\ rule = NoRule
        /\ pending = <<>>
        /\ violations = <<>>
        /\ recommendation = [l \in Lints |-> <<>>]

(* --------------------- lint_rule: output and counts -------------------- *)

\* a faulty variant: any single violation of a nursery rule is kept quiet
quieted_any_single(r, vs) == is_nursery_rule(r) /\ Len(vs) = 1

\* a nursery rule with a single violation, "missing examples", is not shown
quieted(r, vs) ==
    is_nursery_rule(r) /\ Len(vs) = 1 /\ Lint_name(vs[1]) = "missing examples"

\* the lines of the listing: a blank line, the rule, its violations, a blank
listing(r, vs) ==
    IF Len(vs) > 0 /\ ~quieted(r, vs)
    THEN <<[kind |-> "blank", rule |-> r.name],
           [kind |-> "rule", rule |-> r.name, nursery |-> is_nursery_rule(r)]>>
         \o [i \in 1..Len(vs) |->
                [kind |-> "violation", rule |-> r.name,
                 level |-> IF is_nursery_rule(r) THEN WARN ELSE Lint_level(vs[i]),
                 name |-> Lint_name(vs[i])]]
         \o <<[kind |-> "blank", rule |-> r.name]>>
    ELSE <<>>

\* a faulty variant: a missing example file of a nursery rule is not counted
nursery_warned_level_only(v) == Lint_level(v) = WARN

nursery_failed(v) ==
    /\ Lint_level(v) = FAIL
    /\ ~(\/ Lint_name(v) = "missing examples"
         \/ Lint_name(v) = "referenced example doesn't exist")

nursery_warned(v) ==
    \/ Lint_level(v) = WARN
    \/ Lint_level(v) = FAIL /\ Lint_name(v) = "referenced example doesn't exist"

\* len(tuple(filter(..., violations)))
lints_failed(r, vs) ==
    LET is_fail(v) == Lint_level(v) = FAIL
    IN  IF is_nursery_rule(r)
        THEN Cardinality({i \in 1..Len(vs) : nursery_failed(vs[i])})
        ELSE Cardinality({i \in 1..Len(vs) : is_fail(vs[i])})

lints_warned(r, vs) ==
    LET is_warn(v) == Lint_level(v) = WARN
    IN  IF is_nursery_rule(r)
        THEN Cardinality({i \in 1..Len(vs) : nursery_warned(vs[i])})
        ELSE Cardinality({i \in 1..Len(vs) : is_warn(vs[i])})

\* a faulty variant: the notice does not ask for examples
graduates_without_examples(r, vs) ==
    is_nursery_rule(r) /\ lints_failed(r, vs) = 0 /\ lints_warned(r, vs) = 0

\* `(not lints_failed) and (not lints_warned) and has_examples`, in the
\* nursery branch
graduates(r, vs) ==
    LET has_examples(list) ==
            ~\E i \in 1..Len(list) :
                Lint_level(list[i]) = FAIL /\ Lint_name(list[i]) = "missing examples"
    IN  /\ is_nursery_rule(r)
        /\ lints_failed(r, vs) = 0 /\ lints_warned(r, vs) = 0
        /\ has_examples(vs)

\* the lines of the graduation notice
notice(r, vs) ==
    IF graduates(r, vs)
    THEN <<[kind |-> "blank", rule |-> r.name],
           [kind |-> "rule", rule |-> r.name, nursery |-> is_nursery_rule(r)],
           [kind |-> "graduate", rule |-> r.name, level |-> WARN],
           [kind |-> "blank", rule |-> r.name]>>
    ELSE <<>>

(* ------------------------------ the steps ------------------------------ *)

Step(lint, res) ==
    LET \* an exception leaves check_rule, lint_rule, lint() and main
        Raise ==
            /\ run' = [run EXCEPT !.status = "raised"]
            /\ UNCHANGED <<rule, ctx, pending, violations, recommendation>>
    IN  IF "raises" \in DOMAIN res THEN Raise ELSE Ran(lint, res)

\* main up to lint(ctx): -1 when the samples path does not exist; else the
\* rules that are no subscope rules wait to be linted
MainStart ==
    /\ run.status = "main"
    /\ IF ~run.samples_exists
       THEN run' = [run EXCEPT !.status = "returned", !.exit = <<-1>>]
       ELSE run' = [run EXCEPT !.status = "lint",
                               !.queue = SelectSeq(<<"A", "B">>,
                                   LAMBDA n : ~ctx.rules[n].subscope)]
    /\ UNCHANGED <<rule, ctx, pending, violations, recommendation>>

\* lint() takes the next rule and lint_rule builds its chain of generators;
\* lint_features calls get_features at once and the list it returns is kept
\* ('collected') for the feature lints, which run afterwards
LintRuleStart ==
    LET \* get_features: `ctx.rules.rules[dep]` for every dependency, a KeyError for
        \* a name that is no rule of the collection
        get_features_raises(c, r) ==
            \E dep \in get_dependencies(c.rules, r.name) : dep \notin DOMAIN c.rules
    IN  /\ run.status = "lint" /\ run.queue # <<>>
        /\ LET name == Head(run.queue)
               r == [name |-> name, statement |-> ctx.rules[name].statement,
                     features |-> DefaultFeatures, meta |-> ctx.rules[name].meta,
                     holds |-> ctx.rules[name].holds,
                     definition |-> ctx.rules[name].definition,
                     collected |-> <<>>]
           IN  /\ IF get_features_raises(ctx, r)
                  THEN /\ rule' = r
                       /\ run' = [run EXCEPT !.status = "raised", !.queue = Tail(@)]
                       /\ UNCHANGED pending
                  ELSE /\ \E features \in get_features(ctx, r) :
                            rule' = [r EXCEPT !.collected = features]
                       /\ run' = [run EXCEPT !.status = "rule", !.queue = Tail(@)]
                       /\ pending' = chain
               /\ violations' = <<>>
        /\ UNCHANGED <<ctx, recommendation>>

\* lint_rule after the chain is exhausted: the listing, the counts, the
\* notice; lint() stores the counts under the rule's name
LintRuleFinish ==
    /\ run.status = "rule" /\ pending = <<>>
    /\ run' = [run EXCEPT
                  !.status = "lint",
                  !.printed = @ \o listing(rule, violations) \o notice(rule, violations),
                  !.ret = (rule.name :> <<lints_failed(rule, violations),
                                          lints_warned(rule, violations)>>) @@ @]
    /\ UNCHANGED <<rule, ctx, pending, violations, recommendation>>

\* main after lint(ctx): 1 when some rule has failed lints, else 0
MainReturn ==
    /\ run.status = "lint" /\ run.queue = <<>>
    /\ run' = [run EXCEPT
                  !.status = "returned",
                  !.exit = IF \E n \in DOMAIN run.ret : run.ret[n][1] > 0
                           THEN <<1>> ELSE <<0>>]
    /\ UNCHANGED <<rule, ctx, pending, violations, recommendation>>

(* ------------------- the lints of the other categories ----------------- *)

CheckMissingScopes ==
    /\ Next_is("MissingScopes")
    /\ Step("MissingScopes", MissingScopes_check_rule(ctx, rule))

CheckMissingStaticScope ==
    /\ Next_is("MissingStaticScope")
    /\ Step("MissingStaticScope", MissingStaticScope_check_rule(ctx, rule))

CheckMissingDynamicScope ==
    /\ Next_is("MissingDynamicScope")
    /\ Step("MissingDynamicScope", MissingDynamicScope_check_rule(ctx, rule))

CheckInvalidStaticScope ==
    /\ Next_is("InvalidStaticScope")
    /\ Step("InvalidStaticScope", InvalidStaticScope_check_rule(ctx, rule))

CheckInvalidDynamicScope ==
    /\ Next_is("InvalidDynamicScope")
    /\ Step("InvalidDynamicScope", InvalidDynamicScope_check_rule(ctx, rule))

CheckInvalidScopes ==
    /\ Next_is("InvalidScopes")
    /\ Step("InvalidScopes", InvalidScopes_check_rule(ctx, rule))

CheckMissingNamespace ==
    /\ Next_is("MissingNamespace")
    /\ Step("MissingNamespace", MissingNamespace_check_rule(ctx, rule))

CheckMissingAuthors ==
    /\ Next_is("MissingAuthors")
    /\ Step("MissingAuthors", MissingAuthors_check_rule(ctx, rule))

CheckMissingExamples ==
    /\ Next_is("MissingExamples")
    /\ Step("MissingExamples", MissingExamples_check_rule(ctx, rule))

CheckMissingExampleOffset ==
    /\ Next_is("MissingExampleOffset")
    /\ Step("MissingExampleOffset", MissingExampleOffset_check_rule(ctx, rule))

CheckExampleFileDNE ==
    /\ Next_is("ExampleFileDNE")
    /\ Step("ExampleFileDNE", ExampleFileDNE_check_rule(ctx, rule))

CheckInvalidAttckOrMbcTechnique ==
    /\ Next_is("InvalidAttckOrMbcTechnique")
    /\ Step("InvalidAttckOrMbcTechnique",
            InvalidAttckOrMbcTechnique_check_rule(
                ctx, rule, recommendation["InvalidAttckOrMbcTechnique"]))

CheckFeatureStringTooShort ==
    /\ Next_is("FeatureStringTooShort")
    /\ Step("FeatureStringTooShort",
            FeatureStringTooShort_check_features(
                ctx, rule.collected, recommendation["FeatureStringTooShort"]))

CheckFeatureRegexContainsUnescapedPeriod ==
    /\ Next_is("FeatureRegexContainsUnescapedPeriod")
    /\ Step("FeatureRegexContainsUnescapedPeriod",
            FeatureRegexContainsUnescapedPeriod_check_features(
                ctx, rule.collected,
                recommendation["FeatureRegexContainsUnescapedPeriod"]))

CheckFeatureRegexRegistryControlSetMatchIncomplete ==
    /\ Next_is("FeatureRegexRegistryControlSetMatchIncomplete")
    /\ Step("FeatureRegexRegistryControlSetMatchIncomplete",
            FeatureRegexRegistryControlSetMatchIncomplete_check_features(
                ctx, rule.collected,
                recommendation["FeatureRegexRegistryControlSetMatchIncomplete"]))

CheckFormatSingleEmptyLineEOF ==
    /\ Next_is("FormatSingleEmptyLineEOF")
    /\ Step("FormatSingleEmptyLineEOF", FormatSingleEmptyLineEOF_check_rule(ctx, rule))

\* the lints held by what they report, each at its place in the chain
CheckOther ==
    LET Other_check_rule(c, r, lint) == Result(lint \in r.holds, <<>>)
    IN  \E lint \in OtherLints :
            /\ Next_is(lint)
            /\ Step(lint, Other_check_rule(ctx, rule, lint))

\* DoesntMatchExample: the engine calls it made and the cache it filled stay,
\* also when it raises
CheckDoesntMatchExample ==
    /\ Next_is("DoesntMatchExample")
    /\ LET out == DoesntMatchExample_check_rule(ctx, rule, run.engine, run.calls)
       IN  /\ ctx' = [ctx EXCEPT !.capabilities_by_sample = out.cache]
           /\ IF "raises" \in DOMAIN out.res
              THEN /\ run' = [run EXCEPT !.status = "raised", !.calls = out.calls]
                   /\ UNCHANGED <<pending, violations, recommendation>>
              ELSE /\ run' = [run EXCEPT !.calls = out.calls]
                   /\ violations' = IF out.res.violation
                                     THEN Append(violations, "DoesntMatchExample")
                                     ELSE violations
                   /\ recommendation' =
                         [recommendation EXCEPT
                             !["DoesntMatchExample"] = out.res.recommendation]
                   /\ pending' = Tail(pending)
    /\ UNCHANGED rule

NextRun ==
    \/ MainStart
    \/ LintRuleStart
    \/ CheckMissingScopes
    \/ CheckMissingStaticScope
    \/ CheckMissingDynamicScope
    \/ CheckInvalidStaticScope
    \/ CheckInvalidDynamicScope
    \/ CheckInvalidScopes
    \/ CheckMissingNamespace
    \/ CheckMissingAuthors
    \/ CheckMissingExamples
    \/ CheckMissingExampleOffset
    \/ CheckExampleFileDNE
    \/ CheckInvalidAttckOrMbcTechnique
    \/ CheckFeatureStringTooShort
    \/ CheckFeatureRegexContainsUnescapedPeriod
    \/ CheckFeatureRegexRegistryControlSetMatchIncomplete
    \/ CheckFormatSingleEmptyLineEOF
    \/ CheckOther
    \/ CheckDoesntMatchExample
    \/ CheckStatementWithSingleChildStatement
    \/ CheckOrStatementWithAlwaysTrueChild
    \/ CheckNotNotUnderAnd
    \/ CheckOptionalNotUnderAnd
    \/ CheckDuplicateFeatureUnderStatement
    \/ CheckRuleDependencyScopeMismatch
    \/ LintRuleFinish
    \/ MainReturn

SpecRun == InitRun /\ [][NextRun]_vars

(* ======================================================================= *)
(* Properties of the run: examples and the capability engine              *)
(* ======================================================================= *)

\* the lint has run on the rule that lint_rule is at
Checked(lint) == run.status = "rule" /\ HasRun(lint)

\* an exception left the check of the lint
RaisedIn(lint) == run.status = "raised" /\ pending # <<>> /\ Head(pending) = lint

\* the entries of the rule's examples ("examples" left out: none)
Declared(r) == IF "examples" \in DOMAIN r.meta THEN r.meta["examples"].items ELSE <<>>

\* the entry names a sample that ctx.samples knows
Resolves(example) == example # NoneEntry /\ example[1] \in DOMAIN ctx.samples

\* the engine fails for the entry's sample, or does not match the rule on it
FailsOrMisses(example) ==
    LET found == run.engine[ctx.samples[example[1]]]
    IN  found.fails \/ rule.name \notin found.matches

\* C13: DoesntMatchExample reports no violation when the context is not
\* thorough; in thorough mode it reports a violation exactly when some
\* declared example resolves to a known sample and the engine fails for that
\* sample (the failure is caught, never propagated) or the rule's name is not
\* in the sample's capability set; examples that do not resolve to a known
\* sample are skipped without a violation.
C13_DoesntMatchIffKnownExampleFailsOrMisses ==
    /\ ~RaisedIn("DoesntMatchExample")
    /\ Checked("DoesntMatchExample") =>
          (Violation("DoesntMatchExample") <=>
              /\ ctx.is_thorough
              /\ \E i \in 1..Len(Declared(rule)) :
                    Resolves(Declared(rule)[i]) /\ FailsOrMisses(Declared(rule)[i]))

\* C14: over one lint run the capability engine is invoked at most once per
\* sample path: every later request for the same path is answered from
\* ctx.capabilities_by_sample, also when the first invocation failed.
C14_EngineInvokedAtMostOncePerSample ==
    \A p \in SamplePaths : run.calls[p] <= 1

\* C15: no double reporting: on a rule for which MissingExamples reports
\* (the examples key is left out, is not a list, is an empty list or is
\* [None]), neither ExampleFileDNE nor DoesntMatchExample reports a
\* violation: "missing examples" never stands in a violations list together
\* with "referenced example doesn't exist" or "doesn't match on referenced
\* example".
C15_MissingExamplesIsReportedAlone ==
    Violation("MissingExamples") =>
        ~(Violation("ExampleFileDNE") \/ Violation("DoesntMatchExample"))

(* ======================================================================= *)
(* Properties of the run: lint_rule, lint() and main                       *)
(* ======================================================================= *)

\* C16: failure containment: lint_rule completes and returns its counts for
\* every rule, and lint() produces an entry for every rule that is no
\* subscope rule, without any lint raising: also for a rule with no scopes
\* entry (the scope lints after MissingScopes return false), for a rule that
\* references a name that is no rule of the collection, for a rule whose
\* examples hold an empty entry in thorough mode, and when the engine throws.
C16_NoLintRaises ==
    /\ run.status # "raised"
    /\ (run.status = "returned" /\ run.samples_exists) =>
          DOMAIN run.ret = {n \in DOMAIN ctx.rules : ~ctx.rules[n].subscope}

\* the place of a lint in the chain
Place(lint) == CHOOSE i \in 1..Len(chain) : chain[i] = lint

\* the lints that have been invoked on the rule lint_rule is at
Invoked == Len(chain) - Len(pending)

\* C17: for every rule, lint_rule invokes every lint of the six categories
\* exactly once, in the order naming, scope, metadata, logic, features,
\* format and in the order of each tuple, whether or not earlier lints
\* reported a violation; the violations list holds exactly the lints whose
\* check returned true, in that order.
C17_EveryLintOnceInOrder ==
    /\ run.status # "raised"
    /\ run.status = "rule" =>
          /\ pending = SubSeq(chain, Invoked + 1, Len(chain))
          /\ \A i \in 1..Len(violations) : Place(violations[i]) <= Invoked
          /\ \A i, j \in 1..Len(violations) :
                i < j => Place(violations[i]) < Place(violations[j])
          /\ \A lint \in OtherLints :
                Place(lint) <= Invoked => (Violation(lint) <=> lint \in rule.holds)
          /\ Place("MissingAuthors") <= Invoked =>
                (Violation("MissingAuthors") <=> "authors" \notin DOMAIN rule.meta)
          /\ Place("MissingScopes") <= Invoked =>
                (Violation("MissingScopes") <=> "scopes" \notin DOMAIN rule.meta)

\* lint_rule has returned for the rule, and lint() has stored its counts
Finished == run.status = "lint" /\ rule # NoRule

\* the lines printed for a rule, and those of them that list a violation
LinesOf(name) == SelectSeq(run.printed, LAMBDA line : line.rule = name)
ViolationLinesOf(name) ==
    SelectSeq(run.printed, LAMBDA line : line.rule = name /\ line.kind = "violation")

OnlyMissingExamples(vs) == Len(vs) = 1 /\ vs[1] = "MissingExamples"

\* C18: nursery quieting: for a nursery rule whose violations list is the
\* single violation "missing examples", lint_rule prints nothing (no
\* listing, no graduation notice) and returns (0, 0); for any other
\* non-empty violations list of a nursery rule every violation is printed,
\* with severity WARN whatever its level.
C18_NurseryQuieting ==
    (Finished /\ is_nursery_rule(rule)) =>
        /\ OnlyMissingExamples(violations) =>
              /\ LinesOf(rule.name) = <<>>
              /\ run.ret[rule.name] = <<0, 0>>
        /\ (violations # <<>> /\ ~OnlyMissingExamples(violations)) =>
              /\ Len(ViolationLinesOf(rule.name)) = Len(violations)
              /\ \A i \in 1..Len(violations) :
                    /\ ViolationLinesOf(rule.name)[i].name = Lint_name(violations[i])
                    /\ ViolationLinesOf(rule.name)[i].level = WARN

\* C18's cases: the nursery rule A without examples was kept quiet, and the
\* nursery rule B is listed with a lint of level FAIL shown as WARN
C18_Witness ==
    /\ Finished /\ rule.name = "B" /\ is_nursery_rule(rule)
    /\ \E i \in 1..Len(violations) : Lint_level(violations[i]) = FAIL
    /\ Len(ViolationLinesOf("B")) = Len(violations)
    /\ "examples" \notin DOMAIN ctx.rules["A"].meta
    /\ ~get_is_none(ctx.rules["A"].meta, "capa/nursery")
    /\ run.ret["A"] = <<0, 0>>
    /\ LinesOf("A") = <<>>

\* the graduation notice was printed for the rule
Graduated(name) ==
    \E i \in 1..Len(run.printed) :
        run.printed[i].rule = name /\ run.printed[i].kind = "graduate"

\* C19: the graduation notice is printed exactly when the rule is
\* nursery-tagged, has no counted failure, no counted warning and has
\* examples; so it is printed exactly for the nursery rules with an empty
\* violations list, never for a rule that is no nursery rule and never
\* together with a listing of violations for the same rule.
C19_GraduationNotice ==
    Finished =>
        /\ Graduated(rule.name) <=>
              /\ is_nursery_rule(rule)
              /\ run.ret[rule.name] = <<0, 0>>
              /\ ~Violation("MissingExamples")
        /\ Graduated(rule.name) <=> (is_nursery_rule(rule) /\ violations = <<>>)
        /\ Graduated(rule.name) => ViolationLinesOf(rule.name) = <<>>

\* C19's case: a nursery rule with examples and no violation got the notice
C19_Witness ==
    /\ Finished /\ Graduated(rule.name)
    /\ "examples" \in DOMAIN rule.meta
    /\ violations = <<>>

\* how many violations of the list are among the given lints
Among(vs, lints) == Cardinality({i \in 1..Len(vs) : vs[i] \in lints})

WarnLints == {lint \in Lints : Lint_level(lint) = WARN}

\* C20: for a rule that is no nursery rule lint_rule returns the number of
\* its FAIL violations and the number of its WARN violations, whose sum is
\* the number of violations; for a nursery rule "missing examples" is not
\* counted and "referenced example doesn't exist" is counted as a warning;
\* main returns 1 exactly when some linted rule has a fail count above 0,
\* 0 otherwise, and -1 without linting any rule when the samples path does
\* not exist.
C20_CountsAndExitCode ==
    /\ (Finished /\ ~is_nursery_rule(rule)) =>
          /\ run.ret[rule.name] =
                <<Among(violations, Lints \ WarnLints), Among(violations, WarnLints)>>
          /\ run.ret[rule.name][1] + run.ret[rule.name][2] = Len(violations)
    /\ (Finished /\ is_nursery_rule(rule)) =>
          run.ret[rule.name] =
             <<Among(violations, Lints \ (WarnLints \cup {"MissingExamples",
                                                          "ExampleFileDNE"})),
               Among(violations, WarnLints \cup {"ExampleFileDNE"})>>
    /\ run.status = "returned" =>
          /\ run.exit \in {<<1>>, <<0>>, <<-1>>}
          /\ run.exit = <<-1>> <=> ~run.samples_exists
          /\ run.exit = <<-1>> => (DOMAIN run.ret = {} /\ rule = NoRule)
          /\ run.exit = <<1>> <=> \E n \in DOMAIN run.ret : run.ret[n][1] > 0
          /\ run.exit = <<0>> =>
                DOMAIN run.ret = {n \in DOMAIN ctx.rules : ~ctx.rules[n].subscope}

\* C20's case: main returns 1 for the failed rule B after the nursery rule A
\* was given a warning and no failure for its example that does not exist
C20_Witness ==
    /\ run.status = "returned" /\ run.exit = <<1>>
    /\ ~get_is_none(ctx.rules["A"].meta, "capa/nursery")
    /\ Declared(ctx.rules["A"]) = <<Example("zz")>>
    /\ run.ret["A"] = <<0, 1>>
    /\ run.ret["B"][1] > 0

(* ---------------------------- C21: EOF format -------------------------- *)

\* the number of newline characters the text ends with
RECURSIVE TrailingNewlines(_)
TrailingNewlines(text) ==
    IF text # <<>> /\ text[Len(text)] = "\n"
    THEN 1 + TrailingNewlines(SubSeq(text, 1, Len(text) - 1))
    ELSE 0

\* C21: FormatSingleEmptyLineEOF reports no violation if and only if the
\* rule's text ends with exactly one newline: a text with no trailing newline
\* (the empty text included) or with two or more is a violation
C21_PassesIffOneTrailingNewline ==
    Checked("FormatSingleEmptyLineEOF") =>
        (~Violation("FormatSingleEmptyLineEOF")
            <=> TrailingNewlines(rule.definition) = 1)

\* a text with two trailing newlines has been reported
C21_Witness ==
    /\ Checked("FormatSingleEmptyLineEOF")
    /\ TrailingNewlines(rule.definition) >= 2
    /\ Violation("FormatSingleEmptyLineEOF")

(* ----------------- C22: history independence of the lints -------------- *)

\* the values of the short strings among the features
ShortStrings(features) ==
    {features[i].value : i \in {j \in 1..Len(features) :
        /\ isinstance(features[j], {"String", "Substring"})
        /\ Len(features[j].value) < 4}}

\* the first entry of the rule's att&ck and mbc fields that is reported
\* does not match the format
MalformedReported(r) ==
    /\ InvalidAttckOrMbcTechnique_check_rule(ctx, r, <<>>).violation
    /\ InvalidAttckOrMbcTechnique_check_rule(ctx, r, <<>>).recommendation = <<>>

\* FeatureStringTooShort gives what an instance that has linted no rule gives,
\* and quotes a short string of the linted rule
StringTooShortOfCurrentRule ==
    Checked("FeatureStringTooShort") =>
        LET fresh == FeatureStringTooShort_check_features(ctx, rule.collected, <<>>)
        IN  /\ Violation("FeatureStringTooShort") <=> fresh.violation
            /\ Violation("FeatureStringTooShort") =>
                  /\ recommendation["FeatureStringTooShort"] = fresh.recommendation
                  /\ \E v \in ShortStrings(rule.collected) :
                        recommendation["FeatureStringTooShort"] = <<v>>

\* InvalidAttckOrMbcTechnique gives what an instance that has linted no rule
\* gives, and the class's format description for a malformed entry
AttckOfCurrentRule ==
    Checked("InvalidAttckOrMbcTechnique") =>
        LET fresh == InvalidAttckOrMbcTechnique_check_rule(ctx, rule, <<>>)
        IN  /\ Violation("InvalidAttckOrMbcTechnique") <=> fresh.violation
            /\ Violation("InvalidAttckOrMbcTechnique") =>
                  recommendation["InvalidAttckOrMbcTechnique"] = fresh.recommendation
            /\ MalformedReported(rule) =>
                  recommendation["InvalidAttckOrMbcTechnique"] = <<>>

\* C22: the violation flag of a lint and the recommendation reported with it
\* do not depend on the rules the same instance has linted before: a report
\* of FeatureStringTooShort quotes the short string of the current rule, and
\* a report of InvalidAttckOrMbcTechnique for a malformed entry shows the
\* format description
C22_HistoryIndependence == StringTooShortOfCurrentRule /\ AttckOfCurrentRule

(* ----------------------- C23: the regex feature lints ------------------ *)

\* the Regex features of a list
RegexFeatures(features) ==
    {features[i] : i \in {j \in 1..Len(features) : isinstance(features[j], {"Regex"})}}

\* the pattern references a control set and lacks the complete alternative
ControlSetIncomplete(value) ==
    /\ \/ Contains(lower(value), Chars("system\\\\")) /\ Contains(lower(value), Chars("controlset"))
       \/ Contains(lower(value), Chars("currentcontrolset"))
    /\ ~Contains(lower(value), Chars("system\\\\(controlset\\d{3}|currentcontrolset)"))

\* the text between the slashes of a pattern
Inner(value) ==
    removesuffix(removesuffix(removeprefix(value, <<"/">>), <<"/", "i">>), <<"/">>)

\* the number of backslashes right before position p
BackslashesBefore(text, p) ==
    LET others == {j \in 1..(p - 1) : text[j] # "\\"}
    IN  IF others = {} THEN p - 1
        ELSE (p - 1) - CHOOSE j \in others : \A k \in others : k <= j

\* some period of the pattern is not escaped and no quantifier follows it
UnescapedPeriod(value) ==
    \E p \in 1..Len(Inner(value)) :
        /\ Inner(value)[p] = "."
        /\ BackslashesBefore(Inner(value), p) % 2 = 0
        /\ ~(p < Len(Inner(value)) /\ Inner(value)[p + 1] \in {"*", "+", "?", "{"})

ControlSetExaminesEveryFeature ==
    Checked("FeatureRegexRegistryControlSetMatchIncomplete") =>
        (Violation("FeatureRegexRegistryControlSetMatchIncomplete")
            <=> \E f \in RegexFeatures(rule.collected) : ControlSetIncomplete(f.value))

PeriodExaminesEveryFeature ==
    Checked("FeatureRegexContainsUnescapedPeriod") =>
        ((\E f \in RegexFeatures(rule.collected) : UnescapedPeriod(f.value))
            => Violation("FeatureRegexContainsUnescapedPeriod"))

\* C23: the regex feature lints examine every feature of the list:
\* FeatureRegexRegistryControlSetMatchIncomplete reports if and only if some
\* Regex feature of the rule or of its dependencies references a control set
\* without the complete alternative, and FeatureRegexContainsUnescapedPeriod
\* reports whenever some Regex feature holds an unescaped period that no
\* quantifier follows, wherever the feature stands in the list
C23_RegexLintsExamineEveryFeature ==
    ControlSetExaminesEveryFeature /\ PeriodExaminesEveryFeature
====
